---- MODULE Spec2Model ----
(***************************************************************************)
(* Battle-log normalisation and statistics of the Brawl Stars dashboard:   *)
(* BrawlStarsDataProcessor (src/data_processor.py) and the victory count   *)
(* of BrawlStarsUI.display_battle_log (src/ui_components.py).              *)
(*                                                                         *)
(* Python values are modelled as follows.                                  *)
(*   str    a sequence of one-character strings: 'duels' is                *)
(*          <<"d","u","e","l","s">>, '' is <<>>                            *)
(*   dict   a record whose DOMAIN is the set of keys that are present      *)
(*   None   the record PyNone                                              *)
(*   list   a sequence                                                     *)
(* A call that raises returns no value: the operators that model a         *)
(* function come in pairs, <f>Raises (the call raises) and <f> (the value  *)
(* it returns when it does not raise).                                     *)
(***************************************************************************)
EXTENDS Integers, Sequences, FiniteSets, TLC

VARIABLES
    battles,            \* the raw battle log handed to format_battle_log
    player_tag,         \* the subject's tag handed to format_battle_log
    pc,                 \* where the caller stands: "start", "rows", "formatted", "raised", "counted", "shown",
                        \* "record", "text", "player", "highest", "summed", "displayed", "detailed"
    formatted_battles,  \* the rows format_battle_log returned, or the rows a caller supplies
    star_player_count,  \* the star player count format_battle_log returned
    stats,              \* what calculate_battle_statistics returned, or that it raised
    ui_victories,       \* what display_battle_log counted as victories, or that it raised
    single_battle,      \* the raw record handed to _format_trophy_change
    trophy_text,        \* the string _format_trophy_change returned
    player_data,        \* the player record handed to the brawler functions
    highest_brawler,    \* what get_highest_trophy_brawler returned
    brawler_stats,      \* what calculate_brawler_statistics returned
    brawler_metrics,    \* the six numbers display_brawler_stats shows
    brawler_details,    \* the rows format_brawler_details returned
    battles1,           \* the battle log loaded for player 1, or None
    battles2,           \* the battle log loaded for player 2, or None
    formatted1,         \* player 1's rows in _display_battle_logs
    formatted2,         \* player 2's rows in _display_battle_logs
    page_error,         \* the exception that ended the page run, or "none"
    tables_shown,       \* how many battle tables the page has shown
    index_html,         \* Streamlit's static/index.html, as a sequence of elements
    bck_index,          \* static/index.bck, once it exists
    original_html,      \* index.html as it was installed
    runs,               \* how many times the script has run inject_ga
    club_responses,     \* the clubs get_club_info returns data for
    club_info,          \* what _load_club_info returned: the clubs that were loaded
    choice1,            \* what the user chooses and the API answers for player 1
    choice2,            \* what the user chooses and the API answers for player 2
    found,              \* the tags get_player_info returns data for
    selection,          \* what _setup_player_selection returned, or that it raised
    comparison_shown,   \* whether _display_player_comparison was called
    given_tag,          \* a player tag as a caller holds it
    url_fragment,       \* what _clean_tag returned for it
    link,               \* the player_tag parameter of the extended-statistics link
    page_tag,           \* the tag _show_extended_stats_page works with
    shared_inputs,      \* the processor instance and the structures the callers pass to it
    given_inputs,       \* the same as they were before any call
    calls               \* for each caller: the call it makes and what came back

\* the state of the battle-log pipeline, of the single-record helper and of
\* the brawler functions
logVars == <<battles, player_tag, formatted_battles, star_player_count, stats, ui_victories>>
singleVars == <<single_battle, trophy_text>>
brawlerVars == <<player_data, highest_brawler, brawler_stats, brawler_metrics, brawler_details>>

\* the state of the comparison page's battle-log section
pageVars == <<battles1, battles2, formatted1, formatted2, page_error, tables_shown>>

\* the files inject_ga works on
fileVars == <<index_html, bck_index, original_html, runs>>

\* the state of the comparison page's player selection
selectVars == <<club_responses, club_info, choice1, choice2, found, selection, comparison_shown>>

\* the state of a tag on its way into a URL and back
tagVars == <<given_tag, url_fragment, link, page_tag>>

\* the state of independent callers of one processor
callVars == <<shared_inputs, given_inputs, calls>>

\* what the calls on one part of the state leave alone
outsideLog == <<singleVars, brawlerVars, pageVars, fileVars, selectVars, tagVars, callVars>>
outsideSingle == <<logVars, brawlerVars, pageVars, fileVars, selectVars, tagVars, callVars>>
outsideBrawlers == <<logVars, singleVars, pageVars, fileVars, selectVars, tagVars, callVars>>
outsidePage == <<logVars, singleVars, brawlerVars, fileVars, selectVars, tagVars, callVars>>
outsideFile == <<logVars, singleVars, brawlerVars, pageVars, selectVars, tagVars, callVars>>
outsideSelect == <<logVars, singleVars, brawlerVars, pageVars, fileVars, tagVars, callVars>>
outsideTag == <<logVars, singleVars, brawlerVars, pageVars, fileVars, selectVars, callVars>>
outsideCall == <<logVars, singleVars, brawlerVars, pageVars, fileVars, selectVars, tagVars>>

vars == <<pc, logVars, singleVars, brawlerVars, pageVars, fileVars, selectVars, tagVars, callVars>>

(***************************************************************************)
(* Bounds of the model.                                                    *)
(***************************************************************************)
\* longest battle log a player of the comparison page has
MaxPageItems == 2

\* longest installed index.html, in elements
MaxElements == 3

\* most script runs followed
MaxRuns == 3

\* most members a club of the selection has
MaxMembers == 2

\* longest tag, in characters
MaxTagLen == 3

\* most calls one caller makes
MaxCalls == 2

\* longest raw log whose records are chosen freely
MaxItems == 2
\* longest raw log made of copies of one record (beyond the 20 the spec names)
MaxLong == 21
\* longest row sequence a caller hands to calculate_battle_statistics directly
MaxRows == 2
\* longest sequence of won and lost rows of a 3v3 mode
MaxPlainRows == 3
\* longest list of freely chosen brawlers of a player record
MaxBrawlers == 2
\* longest list of brawlers that differ in power only
MaxPowers == 4
\* largest trophy change of one battle, won or lost
MaxChange == 50

(***************************************************************************)
(* Python str methods, computed character by character.                    *)
(***************************************************************************)
LowerLetters == <<"a","b","c","d","e","f","g","h","i","j","k","l","m",
                  "n","o","p","q","r","s","t","u","v","w","x","y","z">>
UpperLetters == <<"A","B","C","D","E","F","G","H","I","J","K","L","M",
                  "N","O","P","Q","R","S","T","U","V","W","X","Y","Z">>
Digits == <<"0","1","2","3","4","5","6","7","8","9">>

IsIn(c, letters) == \E i \in DOMAIN letters : letters[i] = c
IndexIn(c, letters) == CHOOSE i \in DOMAIN letters : letters[i] = c
IsCased(c) == IsIn(c, LowerLetters) \/ IsIn(c, UpperLetters)

\* str.lower() of one character
LowerChar(c) == IF IsIn(c, UpperLetters) THEN LowerLetters[IndexIn(c, UpperLetters)] ELSE c
\* str.upper() of one character
UpperChar(c) == IF IsIn(c, LowerLetters) THEN UpperLetters[IndexIn(c, LowerLetters)] ELSE c

\* s.lower()
StrLower(s) == [i \in DOMAIN s |-> LowerChar(s[i])]

\* s.title(): a cased character is upper-cased when it follows an uncased
\* character (or starts the string) and lower-cased otherwise
StrTitle(s) ==
    [i \in DOMAIN s |->
        IF i = 1 \/ ~IsCased(s[i - 1]) THEN UpperChar(s[i]) ELSE LowerChar(s[i])]

\* does old occur in s at position i
OccursAt(s, old, i) ==
    /\ i + Len(old) - 1 <= Len(s)
    /\ \A j \in 1..Len(old) : s[i + j - 1] = old[j]

\* s.replace(old, new) for a non-empty old: leftmost non-overlapping occurrences
RECURSIVE ReplaceFrom(_, _, _, _)
ReplaceFrom(s, old, new, i) ==
    IF i > Len(s) THEN <<>>
    ELSE IF OccursAt(s, old, i) THEN new \o ReplaceFrom(s, old, new, i + Len(old))
    ELSE <<s[i]>> \o ReplaceFrom(s, old, new, i + 1)

StrReplace(s, old, new) == ReplaceFrom(s, old, new, 1)

\* sep.join(parts)
RECURSIVE StrJoin(_, _)
StrJoin(sep, parts) ==
    IF parts = <<>> THEN <<>>
    ELSE IF Len(parts) = 1 THEN parts[1]
    ELSE parts[1] \o sep \o StrJoin(sep, Tail(parts))

\* str(n) for an integer n
RECURSIVE NatStr(_)
NatStr(n) == IF n < 10 THEN <<Digits[n + 1]>> ELSE NatStr(n \div 10) \o <<Digits[(n % 10) + 1]>>
IntStr(n) == IF n < 0 THEN <<"-">> \o NatStr(0 - n) ELSE NatStr(n)

\* int(s) raises ValueError unless s is an optional sign followed by digits
IsDigits(s) == s # <<>> /\ \A i \in DOMAIN s : IsIn(s[i], Digits)
IntRaises(s) ==
    IF s # <<>> /\ s[1] \in {"-", "+"} THEN ~IsDigits(Tail(s)) ELSE ~IsDigits(s)
RECURSIVE DigitsVal(_)
DigitsVal(s) ==
    IF s = <<>> THEN 0
    ELSE 10 * DigitsVal(SubSeq(s, 1, Len(s) - 1)) + (IndexIn(s[Len(s)], Digits) - 1)
StrInt(s) ==
    IF s[1] = "-" THEN 0 - DigitsVal(Tail(s))
    ELSE IF s[1] = "+" THEN DigitsVal(Tail(s))
    ELSE DigitsVal(s)

\* None
PyNone == [pyNone |-> TRUE]


\* dict merge: the keys of r2 added to (or replacing) those of r1
Merge(r1, r2) ==
    [k \in (DOMAIN r1) \cup (DOMAIN r2) |-> IF k \in DOMAIN r2 THEN r2[k] ELSE r1[k]]
Has(d, key) == key \in DOMAIN d
\* d.get(key, default)
Get(d, key, default) == IF key \in DOMAIN d THEN d[key] ELSE default

RECURSIVE SumSeq(_)
SumSeq(s) == IF s = <<>> THEN 0 ELSE s[1] + SumSeq(Tail(s))

RECURSIVE Concat(_)
Concat(ss) == IF ss = <<>> THEN <<>> ELSE ss[1] \o Concat(Tail(ss))

(***************************************************************************)
(* String literals of the source.                                          *)
(***************************************************************************)
S_duels == <<"d","u","e","l","s">>
S_soloshowdown == <<"s","o","l","o","s","h","o","w","d","o","w","n">>
S_duoshowdown == <<"d","u","o","s","h","o","w","d","o","w","n">>
S_victory == <<"v","i","c","t","o","r","y">>
S_Victory == <<"V","i","c","t","o","r","y">>
S_Defeat == <<"D","e","f","e","a","t">>
S_Draw == <<"D","r","a","w">>
S_NoResult == <<"N","o"," ","R","e","s","u","l","t">>
S_Unknown == <<"U","n","k","n","o","w","n">>
S_Arrow == <<" ","→"," ">>
\* the one-character star marker (U+2B50), written "*" here
S_Star == <<"*">>
S_Hash == <<"#">>
S_T == <<"T">>
S_Space == <<" ">>
S_Millis == <<".","0","0","0","Z">>

(***************************************************************************)
(* BrawlStarsDataProcessor.format_battle_log                               *)
(***************************************************************************)
\* player['tag'] == player_tag, and starPlayer.get('tag') == player_tag
TagMatches(tag, subject) == tag = subject

\* the players of all teams in the order the nested loops visit them
AllTeamPlayers(b) == Concat(b.teams)

\* battle['battle'].get('mode') == 'duels' (line 79)
IsDuels(b) == Has(b, "mode") /\ b.mode = S_duels

\* the players the loop of this record visits: the flat list in duels mode,
\* the teams otherwise, nothing when the record has neither
Roster(b) ==
    IF IsDuels(b) THEN Get(b, "players", <<>>)
    ELSE IF Has(b, "teams") THEN AllTeamPlayers(b)
    ELSE <<>>

\* index of the first visited player whose tag is the subject's, 0 when none
\* (every visited player has a tag here; the loop breaks at the first match)
FirstMatch(roster, subject) ==
    IF \E i \in DOMAIN roster : Has(roster[i], "tag") /\ TagMatches(roster[i].tag, subject)
    THEN CHOOSE i \in DOMAIN roster :
            /\ Has(roster[i], "tag") /\ TagMatches(roster[i].tag, subject)
            /\ \A j \in 1..(i - 1) : ~(Has(roster[j], "tag") /\ TagMatches(roster[j].tag, subject))
    ELSE 0

\* the players whose 'tag' the loop reads: up to and including the first match
Visited(roster, subject) ==
    LET m == FirstMatch(roster, subject)
    IN  IF m = 0 THEN DOMAIN roster ELSE 1..m

\* brawler_info of a duels player taken from the first brawler alone
DuelBrawlerInfo_FirstOnly(player) ==
    [name |-> StrTitle(player.brawlers[1].name),
     power |-> player.brawlers[1].power,
     trophies |-> player.brawlers[1].trophies]

\* brawler_info of a duels player (lines 82-87)
DuelBrawlerInfo(player) ==
    [name |-> StrJoin(S_Arrow, [i \in DOMAIN player.brawlers |-> StrTitle(player.brawlers[i].name)]),
     power |-> SumSeq([i \in DOMAIN player.brawlers |-> player.brawlers[i].power]),
     trophies |-> SumSeq([i \in DOMAIN player.brawlers |-> player.brawlers[i].trophies])]

\* brawler name, power and trophies of the row (lines 75-98, 102-107)
SubjectInfo(b, subject) ==
    LET roster == Roster(b)
        m == FirstMatch(roster, subject)
    IN  IF m = 0 THEN [name |-> S_Unknown, power |-> 0, trophies |-> 0]
        ELSE IF IsDuels(b) THEN DuelBrawlerInfo(roster[m])
        ELSE [name |-> StrTitle(roster[m].brawler.name),
              power |-> roster[m].brawler.power,
              trophies |-> roster[m].brawler.trophies]

\* battle['battle'].get('starPlayer', {}).get('tag') == player_tag
IsStarPlayer(b, subject) ==
    /\ Has(b, "starPlayer")
    /\ Has(b.starPlayer, "tag")
    /\ TagMatches(b.starPlayer.tag, subject)

\* the brawler fields lines 82-87 and 103-107 read from the matched player
BrawlerComplete(br) == Has(br, "name") /\ Has(br, "power") /\ Has(br, "trophies")

\* processing this record raises (KeyError, AttributeError): the loop body has
\* no try/except, so the exception leaves format_battle_log
RecordRaises(battle, subject) ==
    \/ ~Has(battle, "battle")                                        \* line 79
    \/ /\ Has(battle, "battle")
       /\ LET b == battle.battle
              roster == Roster(b)
              m == FirstMatch(roster, subject)
          IN  \/ \E i \in Visited(roster, subject) : ~Has(roster[i], "tag")   \* lines 81, 93
              \/ /\ m # 0
                 /\ IF IsDuels(b)
                    THEN \/ ~Has(roster[m], "brawlers")                       \* lines 82-86
                         \/ /\ Has(roster[m], "brawlers")
                            /\ \E k \in DOMAIN roster[m].brawlers :
                                   ~BrawlerComplete(roster[m].brawlers[k])
                    ELSE \/ ~Has(roster[m], "brawler")                        \* lines 103-107
                         \/ /\ Has(roster[m], "brawler")
                            /\ ~BrawlerComplete(roster[m].brawler)
              \/ ~Has(battle, "battleTime")                                   \* line 101
              \/ ~Has(b, "mode")                                              \* line 108
              \/ ~Has(battle, "event")                                        \* line 109
              \/ (Has(b, "starPlayer") /\ b.starPlayer = PyNone)              \* line 115

\* battle_info of one record that does not raise (lines 100-116); the keys
\* 'Trophy Change' and 'Star Player' are written Trophy_Change and Star_Player
FormatRecord(battle, subject) ==
    LET b == battle.battle
        info == SubjectInfo(b, subject)
    IN  [Time |-> StrReplace(StrReplace(battle.battleTime, S_T, S_Space), S_Millis, <<>>),
         Brawler |-> info.name,
         Power |-> info.power,
         Trophies |-> info.trophies,
         Mode |-> StrTitle(b.mode),
         Map |-> Get(battle.event, "map", S_Unknown),
         Type |-> StrTitle(Get(b, "type", S_Unknown)),
         Result |-> StrTitle(Get(b, "result", <<>>)),
         Duration |-> IntStr(Get(b, "duration", 0)) \o <<"s">>,
         Trophy_Change |-> Get(b, "trophyChange", 0),
         Rank |-> IF Has(b, "rank") THEN S_Hash \o IntStr(b.rank) ELSE <<>>,
         Star_Player |-> IF IsStarPlayer(b, subject) THEN S_Star ELSE <<>>]

\* battles.get('items', []) (line 73): every entry is processed
Items(log) == Get(log, "items", <<>>)

\* format_battle_log raises: some record of the log raises
FormatBattleLogRaises(log, subject) ==
    \E i \in DOMAIN Items(log) : RecordRaises(Items(log)[i], subject)

\* formatted_battles built from the last record to the first
FormattedRows_Reversed(log, subject) ==
    [i \in DOMAIN Items(log) |-> FormatRecord(Items(log)[Len(Items(log)) + 1 - i], subject)]

\* formatted_battles when no record raises: one row per record, in order
FormattedRows(log, subject) ==
    [i \in DOMAIN Items(log) |-> FormatRecord(Items(log)[i], subject)]

\* star_player_count when no record raises (lines 119-120)
StarPlayerCount(log, subject) ==
    Cardinality({i \in DOMAIN Items(log) : IsStarPlayer(Items(log)[i].battle, subject)})

(***************************************************************************)
(* BrawlStarsDataProcessor._get_battle_result and _check_star_player, the  *)
(* helpers of _format_single_battle                                        *)
(***************************************************************************)
\* _get_battle_result (lines 202-208): result_mapping.get(result.lower(), 'No Result')
GetBattleResult(battle) ==
    LET result == StrLower(Get(Get(battle, "battle", <<>>), "result", <<>>))
    IN  IF result = S_victory THEN S_Victory
        ELSE IF result = StrLower(S_Defeat) THEN S_Defeat
        ELSE IF result = StrLower(S_Draw) THEN S_Draw
        ELSE S_NoResult

\* battle.get('battle', {}).get('trophyChange', 0) (line 220)
TrophyChange(battle) == Get(Get(battle, "battle", <<>>), "trophyChange", 0)

\* _format_trophy_change with the sign given to zero as well
FormatTrophyChange_PlusFromZero(battle) ==
    LET trophy_change == TrophyChange(battle)
    IN  IF trophy_change >= 0 THEN <<"+">> \o IntStr(trophy_change) ELSE IntStr(trophy_change)

\* _format_trophy_change without its sign branch
FormatTrophyChange_NoSign(battle) == IntStr(TrophyChange(battle))

\* _format_trophy_change (lines 220-224)
FormatTrophyChange(battle) ==
    LET trophy_change == TrophyChange(battle)
    IN  IF trophy_change > 0 THEN <<"+">> \o IntStr(trophy_change) ELSE IntStr(trophy_change)

(***************************************************************************)
(* BrawlStarsDataProcessor.calculate_battle_statistics and _is_victory     *)
(***************************************************************************)
\* int(battle['Rank'].replace('#', ''))
RankOf(row) == StrReplace(row.Rank, S_Hash, <<>>)

\* the showdown branch of _is_victory is taken (lines 47, 52): the mode
\* matches and battle['Rank'] is a non-empty string
RankBranch(row, mode) == StrLower(row.Mode) = mode /\ row.Rank # <<>>

\* _is_victory raises: KeyError on an absent Mode, Rank or Result that the
\* code reads, ValueError on a rank that int() rejects
IsVictoryRaises(row) ==
    \/ ~Has(row, "Mode")                                                  \* line 44
    \/ /\ Has(row, "Mode")
       /\ LET mode == StrLower(row.Mode)
          IN  IF mode = S_soloshowdown \/ mode = S_duoshowdown
              THEN \/ ~Has(row, "Rank")                                   \* lines 47, 52
                   \/ /\ Has(row, "Rank")
                      /\ IF row.Rank # <<>> THEN IntRaises(RankOf(row))   \* lines 48, 53
                         ELSE ~Has(row, "Result")                         \* line 57
              ELSE ~Has(row, "Result")                                    \* line 57

\* rank thresholds of lines 49 and 54
SoloRankLimit == 4
DuoRankLimit == 2

\* _is_victory without its showdown branches: every row decided by its Result
IsVictory_ResultOnly(row) == StrLower(row.Result) = S_victory

\* _is_victory of a row on which it does not raise
IsVictory(row) ==
    IF RankBranch(row, S_soloshowdown) THEN StrInt(RankOf(row)) <= SoloRankLimit
    ELSE IF RankBranch(row, S_duoshowdown) THEN StrInt(RankOf(row)) <= DuoRankLimit
    ELSE StrLower(row.Result) = S_victory

\* calculate_battle_statistics raises: the generator of line 25 calls
\* _is_victory on every row, in order, and the first exception leaves the call
CalculateRaises(rows) == \E i \in DOMAIN rows : IsVictoryRaises(rows[i])

\* calculate_battle_statistics without the guard of lines 17-22
CalculateBattleStatistics_NoEmptyGuard(rows) ==
    LET total_games == Len(rows)
        victories == Cardinality({i \in DOMAIN rows : IsVictory(rows[i])})
    IN  [total_games |-> total_games,
         victories |-> victories,
         win_rate |-> [num |-> victories * 100, den |-> total_games]]

\* calculate_battle_statistics with the win rate left as a fraction of 1
CalculateBattleStatistics_Fraction(rows) ==
    IF rows = <<>>
    THEN [total_games |-> 0, victories |-> 0, win_rate |-> [num |-> 0, den |-> 1]]
    ELSE LET total_games == Len(rows)
             victories == Cardinality({i \in DOMAIN rows : IsVictory(rows[i])})
         IN  [total_games |-> total_games,
              victories |-> victories,
              win_rate |-> [num |-> victories, den |-> total_games]]

\* the value calculate_battle_statistics returns; win_rate is the exact
\* quotient num/den (victories / total_games * 100, and 0.0 for no rows)
CalculateBattleStatistics(rows) ==
    IF rows = <<>>
    THEN [total_games |-> 0, victories |-> 0, win_rate |-> [num |-> 0, den |-> 1]]
    ELSE LET total_games == Len(rows)
             victories == Cardinality({i \in DOMAIN rows : IsVictory(rows[i])})
         IN  [total_games |-> total_games,
              victories |-> victories,
              win_rate |-> [num |-> victories * 100, den |-> total_games]]

\* f"{win_rate:.1f}" (main.py line 636) of a non-negative quotient: the
\* number of tenths nearest to it, a tie going to the even one, printed with
\* one decimal
Tenths(q) ==
    LET n == q.num * 10
        floor == n \div q.den
        twice == 2 * (n % q.den)
    IN  IF twice > q.den THEN floor + 1
        ELSE IF twice < q.den THEN floor
        ELSE IF floor % 2 = 0 THEN floor ELSE floor + 1
FormatOneDecimal(q) == NatStr(Tenths(q) \div 10) \o <<".">> \o NatStr(Tenths(q) % 10)

(***************************************************************************)
(* BrawlStarsUI.display_battle_log (src/ui_components.py)                  *)
(***************************************************************************)
\* line 196 raises KeyError when a row has no Result
DisplayRaises(rows) == \E i \in DOMAIN rows : ~Has(rows[i], "Result")

\* victories of line 196: battle['Result'] == 'Victory'
DisplayVictories(rows) == Cardinality({i \in DOMAIN rows : rows[i].Result = S_Victory})

(***************************************************************************)
(* BrawlStarsDataProcessor.get_highest_trophy_brawler and                  *)
(* calculate_brawler_statistics, BrawlStarsUI.display_brawler_stats        *)
(***************************************************************************)
\* {}: the dict without keys
EmptyDict == <<>>

\* not player_data or 'brawlers' not in player_data (lines 293, 381)
NoBrawlers(pd) == DOMAIN pd = {} \/ ~Has(pd, "brawlers")

\* key=lambda x: x.get('trophies', 0) (line 386)
TrophyKey(brawler) == Get(brawler, "trophies", 0)

\* max(..., key=...) over a non-empty list: the first item whose key is maximal
FirstMax(brawlers) ==
    CHOOSE i \in DOMAIN brawlers :
        /\ \A j \in DOMAIN brawlers : TrophyKey(brawlers[j]) <= TrophyKey(brawlers[i])
        /\ \A j \in 1..(i - 1) : TrophyKey(brawlers[j]) < TrophyKey(brawlers[i])

\* the last item whose key is maximal
LastMax(brawlers) ==
    CHOOSE i \in DOMAIN brawlers :
        /\ \A j \in DOMAIN brawlers : TrophyKey(brawlers[j]) <= TrophyKey(brawlers[i])
        /\ \A j \in (i + 1)..Len(brawlers) : TrophyKey(brawlers[j]) < TrophyKey(brawlers[i])

\* get_highest_trophy_brawler with ties going to the last brawler
GetHighestTrophyBrawler_LastMax(pd) ==
    IF NoBrawlers(pd) THEN EmptyDict
    ELSE IF pd.brawlers = <<>> THEN EmptyDict
    ELSE LET highest == pd.brawlers[LastMax(pd.brawlers)]
         IN  IF DOMAIN highest = {} THEN EmptyDict
             ELSE [name |-> Get(highest, "name", S_Unknown), trophies |-> Get(highest, "trophies", 0)]

\* get_highest_trophy_brawler (lines 381-395): max() has default={} for an
\* empty list, and an empty dict is falsy at line 389
GetHighestTrophyBrawler(pd) ==
    IF NoBrawlers(pd) THEN EmptyDict
    ELSE IF pd.brawlers = <<>> THEN EmptyDict
    ELSE LET highest == pd.brawlers[FirstMax(pd.brawlers)]
         IN  IF DOMAIN highest = {} THEN EmptyDict
             ELSE [name |-> Get(highest, "name", S_Unknown), trophies |-> Get(highest, "trophies", 0)]

\* calculate_brawler_statistics without the guard of lines 293-294
CalculateBrawlerStatisticsRaises_NoGuard(pd) ==
    \/ ~Has(pd, "brawlers")
    \/ /\ Has(pd, "brawlers")
       /\ \E i \in DOMAIN pd.brawlers : ~Has(pd.brawlers[i], "power")

\* calculate_brawler_statistics raises: KeyError on brawler['power'] (lines 304, 306)
CalculateBrawlerStatisticsRaises(pd) ==
    /\ ~NoBrawlers(pd)
    /\ \E i \in DOMAIN pd.brawlers : ~Has(pd.brawlers[i], "power")

\* thresholds of lines 304 and 306
HighLevelPower == 9
MaxLevelPower == 11

\* the number of brawlers that have the list, and the total length of the
\* list over the brawlers that have it (lines 310-315)
Holders(brawlers, key) == Cardinality({i \in DOMAIN brawlers : Has(brawlers[i], key)})
ListTotal(brawlers, key) ==
    SumSeq([i \in DOMAIN brawlers |-> IF Has(brawlers[i], key) THEN Len(brawlers[i][key]) ELSE 0])

\* calculate_brawler_statistics counting only the powers above 9 as high
CalculateBrawlerStatistics_AboveNine(pd) ==
    IF NoBrawlers(pd) THEN EmptyDict
    ELSE LET brawlers == pd.brawlers
         IN  [total_brawlers |-> Len(brawlers),
              high_level_brawlers |->
                  Cardinality({i \in DOMAIN brawlers : brawlers[i].power > HighLevelPower}),
              max_level_brawlers |->
                  Cardinality({i \in DOMAIN brawlers : brawlers[i].power = MaxLevelPower}),
              total_gears |-> ListTotal(brawlers, "gears"),
              total_starpowers |-> ListTotal(brawlers, "starPowers"),
              total_gadgets |-> ListTotal(brawlers, "gadgets")]

\* calculate_brawler_statistics adding 1 per list instead of its length
CalculateBrawlerStatistics_CountsHolders(pd) ==
    IF NoBrawlers(pd) THEN EmptyDict
    ELSE LET brawlers == pd.brawlers
         IN  [total_brawlers |-> Len(brawlers),
              high_level_brawlers |->
                  Cardinality({i \in DOMAIN brawlers : brawlers[i].power >= HighLevelPower}),
              max_level_brawlers |->
                  Cardinality({i \in DOMAIN brawlers : brawlers[i].power = MaxLevelPower}),
              total_gears |-> Holders(brawlers, "gears"),
              total_starpowers |-> Holders(brawlers, "starPowers"),
              total_gadgets |-> Holders(brawlers, "gadgets")]

\* the value calculate_brawler_statistics returns when it does not raise
\* (lines 293-324)
CalculateBrawlerStatistics(pd) ==
    IF NoBrawlers(pd) THEN EmptyDict
    ELSE LET brawlers == pd.brawlers
         IN  [total_brawlers |-> Len(brawlers),
              high_level_brawlers |->
                  Cardinality({i \in DOMAIN brawlers : brawlers[i].power >= HighLevelPower}),
              max_level_brawlers |->
                  Cardinality({i \in DOMAIN brawlers : brawlers[i].power = MaxLevelPower}),
              total_gears |-> ListTotal(brawlers, "gears"),
              total_starpowers |-> ListTotal(brawlers, "starPowers"),
              total_gadgets |-> ListTotal(brawlers, "gadgets")]

\* the keys display_brawler_stats reads, each with stats.get(key, 0)
\* (ui_components.py lines 280-287)
CounterKeys ==
    {"total_brawlers", "high_level_brawlers", "max_level_brawlers",
     "total_gears", "total_starpowers", "total_gadgets"}
BrawlerMetrics(result) == [k \in CounterKeys |-> Get(result, k, 0)]

(***************************************************************************)
(* BrawlStarsDataProcessor.format_brawler_details                          *)
(***************************************************************************)
S_Dash == <<"-">>
S_CommaSpace == <<",", " ">>

\* ', '.join(names) if names else '-' over item.get('name', 'Unknown')
\* (lines 342-351)
NamesText(items) ==
    IF items = <<>> THEN S_Dash
    ELSE StrJoin(S_CommaSpace, [i \in DOMAIN items |-> Get(items[i], "name", S_Unknown)])

\* formatted_brawler of one brawler (lines 354-363); the keys 'Highest
\* Trophies' and 'Star Powers' are written Highest_Trophies and Star_Powers
FormattedBrawler(brawler) ==
    [Name |-> Get(brawler, "name", S_Unknown),
     Power |-> Get(brawler, "power", 0),
     Rank |-> Get(brawler, "rank", 0),
     Trophies |-> Get(brawler, "trophies", 0),
     Highest_Trophies |-> Get(brawler, "highestTrophies", 0),
     Gears |-> NamesText(Get(brawler, "gears", <<>>)),
     Star_Powers |-> NamesText(Get(brawler, "starPowers", <<>>)),
     Gadgets |-> NamesText(Get(brawler, "gadgets", <<>>))]

\* row put into rows that are already in order: behind `ahead` of them
InsertAt(rows, row, ahead) ==
    SubSeq(rows, 1, ahead) \o <<row>> \o SubSeq(rows, ahead + 1, Len(rows))

\* sorted(rows, key=Trophies) without reverse=True
RECURSIVE SortedByTrophies_Ascending(_)
SortedByTrophies_Ascending(rows) ==
    IF rows = <<>> THEN <<>>
    ELSE LET front == SortedByTrophies_Ascending(SubSeq(rows, 1, Len(rows) - 1))
             row == rows[Len(rows)]
         IN  InsertAt(front, row,
                      Cardinality({i \in DOMAIN front : front[i].Trophies <= row.Trophies}))

\* the ascending sort reversed: rows of equal trophies come out in reverse
RECURSIVE SortedByTrophies_TiesReversed(_)
SortedByTrophies_TiesReversed(rows) ==
    IF rows = <<>> THEN <<>>
    ELSE LET front == SortedByTrophies_TiesReversed(SubSeq(rows, 1, Len(rows) - 1))
             row == rows[Len(rows)]
         IN  InsertAt(front, row,
                      Cardinality({i \in DOMAIN front : front[i].Trophies > row.Trophies}))

\* sorted(rows, key=lambda x: x['Trophies'], reverse=True) (line 369): the
\* sort is stable, and with reverse=True rows of equal key keep their order
RECURSIVE SortedByTrophies(_)
SortedByTrophies(rows) ==
    IF rows = <<>> THEN <<>>
    ELSE LET front == SortedByTrophies(SubSeq(rows, 1, Len(rows) - 1))
             row == rows[Len(rows)]
         IN  InsertAt(front, row,
                      Cardinality({i \in DOMAIN front : front[i].Trophies >= row.Trophies}))

\* format_brawler_details (lines 336-369)
FormatBrawlerDetails(pd) ==
    IF NoBrawlers(pd) THEN <<>>
    ELSE SortedByTrophies([i \in DOMAIN pd.brawlers |-> FormattedBrawler(pd.brawlers[i])])

(***************************************************************************)
(* The inputs: tags, raw battle records as the API's battle log gives      *)
(* them, and the malformed records the claims name.                        *)
(***************************************************************************)
Without(d, keys) == [k \in (DOMAIN d) \ keys |-> d[k]]

TagAB == <<"#","A","B">>
TagNoHash == <<"A","B">>
TagLower == <<"#","a","b">>
TagCD == <<"#","C","D">>
TagEF == <<"#","E","F">>

\* format_battle_log is a public method: its player_tag is any of these
SubjectTags == {TagAB, TagNoHash}

Brawler(name, power, trophies) == [name |-> name, power |-> power, trophies |-> trophies]
Crow == Brawler(<<"C","R","O","W">>, 9, 500)
Leon == Brawler(<<"L","E","O","N">>, 11, 300)
Player(tag, brawler) == [tag |-> tag, brawler |-> brawler]
DuelPlayer(tag, brawlers) == [tag |-> tag, brawlers |-> brawlers]

S_gemGrab == <<"g","e","m","G","r","a","b">>
S_soloShowdown == <<"s","o","l","o","S","h","o","w","d","o","w","n">>
S_duoShowdown == <<"d","u","o","S","h","o","w","d","o","w","n">>
S_defeat == <<"d","e","f","e","a","t">>
S_draw == <<"d","r","a","w">>
S_VICTORY == <<"V","I","C","T","O","R","Y">>
S_other == <<"n","o","n","e">>
SampleTime == <<"2","0","2","4","0","1","0","1","T","1","2","0","0","0","0",".","0","0","0","Z">>

\* the fields every battle of the log carries
BaseBattle(mode) ==
    [mode |-> mode, type |-> <<"r","a","n","k","e","d">>, duration |-> 90, trophyChange |-> 8]

\* the teams of a 3v3 battle in which player t used CROW
Teams(t) == << <<Player(TagCD, Leon), Player(t, Crow)>>, <<Player(TagEF, Leon)>> >>

\* a 3v3 battle the subject #AB played with CROW, won, #CD being star player
TeamBattle ==
    Merge(BaseBattle(S_gemGrab),
          [result |-> S_victory,
           starPlayer |-> [tag |-> TagCD, name |-> <<"c","d">>],
           teams |-> Teams(TagAB)])

Rec(b) == [battleTime |-> SampleTime, event |-> [id |-> 1, map |-> <<"M","i","n","e">>], battle |-> b]

\* the result the API reports, in several letter cases, or none
ResultRecords ==
    {Rec(Merge(TeamBattle, [result |-> r])) : r \in {S_victory, S_VICTORY, S_defeat, S_draw, S_other}}
    \cup {Rec(Without(TeamBattle, {"result"}))}

\* showdown battles: a rank, usually no result
ShowdownRecords ==
    {Rec(Merge(Without(TeamBattle, {"result", "starPlayer"}), [mode |-> m, rank |-> k])) :
        m \in {S_soloShowdown, S_duoShowdown}, k \in {2, 4}}
    \cup {Rec(Merge(Without(TeamBattle, {"result", "starPlayer"}), [mode |-> S_soloShowdown, rank |-> 5])),
          Rec(Merge(Without(TeamBattle, {"starPlayer"}), [mode |-> S_soloShowdown]))}

\* where the subject stands in the roster
RosterRecords ==
    {Rec(Merge(TeamBattle, [teams |-> Teams(t)])) : t \in {TagAB, TagNoHash, TagLower, TagEF}}
    \cup {Rec(Without(TeamBattle, {"teams"})),
          Rec(Merge(Without(TeamBattle, {"teams"}), [players |-> <<Player(TagAB, Crow)>>]))}

\* who the star player is
StarRecords ==
    {Rec(Merge(TeamBattle, [starPlayer |-> [tag |-> t, name |-> <<"a","b">>]])) :
        t \in {TagAB, TagNoHash}}
    \cup {Rec(Without(TeamBattle, {"starPlayer"})),
          Rec(Merge(TeamBattle, [starPlayer |-> [name |-> <<"a","b">>]]))}

\* duels: a flat player list, several brawlers per player
DuelRecords ==
    {Rec(Merge(Without(TeamBattle, {"teams"}),
               [mode |-> S_duels, players |-> <<DuelPlayer(TagCD, <<Leon>>), DuelPlayer(t, <<Crow, Leon>>)>>])) :
        t \in {TagAB, TagEF}}

\* records of an unexpected shape: no 'battle', no 'event', no 'mode',
\* starPlayer set to null
MalformedRecords ==
    {Without(Rec(TeamBattle), {"battle"}),
     Without(Rec(TeamBattle), {"event"}),
     Rec(Without(TeamBattle, {"mode"})),
     Rec(Merge(TeamBattle, [starPlayer |-> PyNone])),
     Rec(Merge(Without(TeamBattle, {"teams"}), [starPlayer |-> PyNone]))}

\* a battleTime that is not in the API's format, and none at all
S_badTime == <<"b","a","d">>
TimeRecords ==
    {Merge(Rec(TeamBattle), [battleTime |-> S_badTime]),
     Without(Rec(TeamBattle), {"battleTime"})}

RawRecords ==
    ResultRecords \cup ShowdownRecords \cup RosterRecords \cup StarRecords
        \cup DuelRecords \cup MalformedRecords \cup TimeRecords

RECURSIVE SeqsUpTo(_, _)
SeqsUpTo(S, n) ==
    IF n = 0 THEN {<<>>}
    ELSE LET shorter == SeqsUpTo(S, n - 1)
         IN  shorter \cup {Append(q, x) : q \in {r \in shorter : Len(r) = n - 1}, x \in S}

\* the logs: every short sequence of records, and long logs of one record
RawLogs ==
    {[items |-> q] : q \in SeqsUpTo(RawRecords, MaxItems)}
    \cup {[items |-> [i \in 1..n |-> r]] : n \in (MaxItems + 1)..MaxLong, r \in RawRecords}

\* the records handed to _format_trophy_change: every trophy change of the
\* range, a battle without trophyChange, a record without 'battle'
SingleBattles ==
    {Rec(Merge(TeamBattle, [trophyChange |-> n])) : n \in (0 - MaxChange)..MaxChange}
    \cup {Rec(Without(TeamBattle, {"trophyChange"})), Without(Rec(TeamBattle), {"battle"})}

\* an entry of a brawler's gears, starPowers or gadgets list
Item == [id |-> 1, name |-> <<"x">>]
NoEquipment == [k \in {} |-> Item]
SomeEquipment == [gears |-> <<Item, Item>>, starPowers |-> <<Item>>]
AllEquipment == [gears |-> <<Item>>, starPowers |-> <<>>, gadgets |-> <<Item, [id |-> 2], Item>>]

\* the brawlers of a player record: two names, powers around the two
\* thresholds, equal and different trophies, with and without equipment
\* lists, and a brawler without 'trophies'
PlayerBrawlers ==
    {Merge(Brawler(n, p, t), e) :
        n \in {Crow.name, Leon.name}, p \in {8, 9, 11}, t \in {300, 500},
        e \in {NoEquipment, SomeEquipment}}
    \cup {Merge(Brawler(Crow.name, 10, 500), AllEquipment),
          Without(Brawler(Leon.name, 11, 0), {"trophies"})}

\* brawlers that differ in power only
PowerBrawlers == {Brawler(Crow.name, p, 300) : p \in {5, 9, 11}}

PlayerRecord(brawlers) ==
    [tag |-> TagAB, name |-> <<"a","b">>, trophies |-> 800, brawlers |-> brawlers]

\* the player records: every short list of brawlers, longer lists of brawlers
\* that differ in power only, and a record without 'brawlers'
PlayerRecords ==
    {PlayerRecord(q) : q \in SeqsUpTo(PlayerBrawlers, MaxBrawlers) \cup SeqsUpTo(PowerBrawlers, MaxPowers)}
    \cup {Without(PlayerRecord(<<>>), {"brawlers"})}

(***************************************************************************)
(* Rows a caller hands to calculate_battle_statistics or to                *)
(* display_battle_log without going through format_battle_log.             *)
(***************************************************************************)
Row(mode, rank, result) ==
    [Time |-> <<"t">>, Brawler |-> <<"C","r","o","w">>, Power |-> 9, Trophies |-> 500,
     Mode |-> mode, Map |-> <<"M","i","n","e">>, Type |-> <<"R","a","n","k","e","d">>,
     Result |-> result, Duration |-> <<"9","0","s">>, Trophy_Change |-> 8,
     Rank |-> rank, Star_Player |-> <<>>]

WellFormedRows ==
    {Row(StrTitle(m), k, r) :
        m \in {S_soloShowdown, S_duoShowdown, S_gemGrab},
        k \in {<<>>, <<"#","2">>, <<"#","3">>, <<"#","4">>, <<"#","5">>},
        r \in {<<>>, S_Victory}}
    \cup {Row(StrTitle(S_gemGrab), <<>>, S_Defeat)}

\* rows with an empty or absent Mode, Rank or Result, a rank that is no
\* number, a result in another letter case
OddRows ==
    {Row(<<>>, <<>>, S_Victory),
     Row(StrTitle(S_gemGrab), <<>>, S_VICTORY),
     Row(StrTitle(S_soloShowdown), <<"#","x">>, S_Victory),
     Without(Row(StrTitle(S_soloShowdown), <<>>, S_Victory), {"Rank"}),
     Without(Row(StrTitle(S_gemGrab), <<>>, S_Victory), {"Rank"}),
     Without(Row(StrTitle(S_gemGrab), <<>>, <<>>), {"Result"}),
     Without(Row(<<>>, <<>>, S_Defeat), {"Mode"})}

CallerRows == WellFormedRows \cup OddRows

\* rows of a 3v3 mode, won or lost
PlainRows == {Row(StrTitle(S_gemGrab), <<>>, r) : r \in {S_Victory, S_Defeat}}

(***************************************************************************)
(* The state machine: a caller formats a raw log and then computes the     *)
(* statistics of the rows and shows them, or hands rows of its own to the  *)
(* statistics and to the display.                                          *)
(***************************************************************************)
NotRun == [status |-> "not run"]
Raised == [status |-> "raised"]
Returned(value) == [status |-> "returned", value |-> value]

\* the parts of the state a caller does not use
IdleLog ==
    /\ battles = [items |-> <<>>]
    /\ player_tag = TagAB
    /\ formatted_battles = <<>>
    /\ star_player_count = 0
    /\ stats = NotRun
    /\ ui_victories = NotRun
IdleSingle == single_battle = PyNone /\ trophy_text = NotRun
IdleBrawlers ==
    /\ player_data = PyNone
    /\ highest_brawler = NotRun
    /\ brawler_stats = NotRun
    /\ brawler_metrics = NotRun
    /\ brawler_details = NotRun
IdlePage ==
    /\ battles1 = PyNone /\ battles2 = PyNone
    /\ formatted1 = NotRun /\ formatted2 = NotRun
    /\ page_error = "none" /\ tables_shown = 0
IdleFile ==
    /\ index_html = <<>> /\ bck_index = [exists |-> FALSE]
    /\ original_html = <<>> /\ runs = 0
IdleSelect ==
    /\ club_responses = {} /\ club_info = {}
    /\ choice1 = PyNone /\ choice2 = PyNone /\ found = {}
    /\ selection = NotRun /\ comparison_shown = FALSE
IdleTag ==
    /\ given_tag = <<>> /\ url_fragment = NotRun /\ link = NotRun /\ page_tag = NotRun
IdleCall ==
    /\ shared_inputs = PyNone /\ given_inputs = PyNone /\ calls = <<>>
IdleOutsideLog == IdleSingle /\ IdleBrawlers /\ IdlePage /\ IdleFile /\ IdleSelect /\ IdleTag /\ IdleCall
IdleOutsideSingle == IdleLog /\ IdleBrawlers /\ IdlePage /\ IdleFile /\ IdleSelect /\ IdleTag /\ IdleCall
IdleOutsideBrawlers == IdleLog /\ IdleSingle /\ IdlePage /\ IdleFile /\ IdleSelect /\ IdleTag /\ IdleCall
IdleOutsidePage == IdleLog /\ IdleSingle /\ IdleBrawlers /\ IdleFile /\ IdleSelect /\ IdleTag /\ IdleCall
IdleOutsideFile == IdleLog /\ IdleSingle /\ IdleBrawlers /\ IdlePage /\ IdleSelect /\ IdleTag /\ IdleCall
IdleOutsideSelect == IdleLog /\ IdleSingle /\ IdleBrawlers /\ IdlePage /\ IdleFile /\ IdleTag /\ IdleCall
IdleOutsideTag == IdleLog /\ IdleSingle /\ IdleBrawlers /\ IdlePage /\ IdleFile /\ IdleSelect /\ IdleCall
IdleOutsideCall == IdleLog /\ IdleSingle /\ IdleBrawlers /\ IdlePage /\ IdleFile /\ IdleSelect /\ IdleTag

\* a caller with a raw battle log and a subject tag
Init ==
    /\ pc = "start"
    /\ battles \in RawLogs
    /\ player_tag \in SubjectTags
    /\ formatted_battles = <<>>
    /\ star_player_count = 0
    /\ stats = NotRun
    /\ ui_victories = NotRun
    /\ IdleOutsideLog

\* a caller with rows of its own
InitRows ==
    /\ pc = "rows"
    /\ battles = [items |-> <<>>]
    /\ player_tag = TagAB
    /\ formatted_battles \in SeqsUpTo(CallerRows, MaxRows) \cup SeqsUpTo(PlainRows, MaxPlainRows)
    /\ star_player_count = 0
    /\ stats = NotRun
    /\ ui_victories = NotRun
    /\ IdleOutsideLog

\* format_battle_log(battles, player_tag)
FormatBattleLog ==
    /\ pc = "start"
    /\ IF FormatBattleLogRaises(battles, player_tag)
       THEN /\ pc' = "raised"
            /\ UNCHANGED <<formatted_battles, star_player_count>>
       ELSE /\ pc' = "formatted"
            /\ formatted_battles' = FormattedRows(battles, player_tag)
            /\ star_player_count' = StarPlayerCount(battles, player_tag)
    /\ UNCHANGED <<battles, player_tag, stats, ui_victories, outsideLog>>

\* calculate_battle_statistics(formatted_battles)
CalculateStatistics ==
    /\ pc \in {"formatted", "rows"}
    /\ pc' = "counted"
    /\ stats' = IF CalculateRaises(formatted_battles) THEN Raised
                ELSE Returned(CalculateBattleStatistics(formatted_battles))
    /\ UNCHANGED <<battles, player_tag, formatted_battles, star_player_count, ui_victories,
                    outsideLog>>

\* display_battle_log(formatted_battles, ...): no statistics for no rows
DisplayBattleLog ==
    /\ pc = "counted"
    /\ pc' = "shown"
    /\ ui_victories' = IF formatted_battles = <<>> THEN [status |-> "no data"]
                       ELSE IF DisplayRaises(formatted_battles) THEN Raised
                       ELSE Returned(DisplayVictories(formatted_battles))
    /\ UNCHANGED <<battles, player_tag, formatted_battles, star_player_count, stats,
                    outsideLog>>

Next == FormatBattleLog \/ CalculateStatistics \/ DisplayBattleLog

Spec == Init /\ [][Next]_vars

NextRows == CalculateStatistics \/ DisplayBattleLog

SpecRows == InitRows /\ [][NextRows]_vars

\* a caller with one raw record
InitSingle ==
    /\ pc = "record"
    /\ single_battle \in SingleBattles
    /\ trophy_text = NotRun
    /\ IdleOutsideSingle

\* _format_trophy_change(single_battle)
FormatTrophyChangeStep ==
    /\ pc = "record"
    /\ pc' = "text"
    /\ trophy_text' = Returned(FormatTrophyChange(single_battle))
    /\ UNCHANGED <<single_battle, outsideSingle>>

NextSingle == FormatTrophyChangeStep

SpecSingle == InitSingle /\ [][NextSingle]_vars

\* a caller with a player record
InitBrawlers ==
    /\ pc = "player"
    /\ player_data \in PlayerRecords
    /\ highest_brawler = NotRun
    /\ brawler_stats = NotRun
    /\ brawler_metrics = NotRun
    /\ brawler_details = NotRun
    /\ IdleOutsideBrawlers

\* get_highest_trophy_brawler(player_data), called by display_player_stats
HighestTrophyBrawler ==
    /\ pc = "player"
    /\ pc' = "highest"
    /\ highest_brawler' = Returned(GetHighestTrophyBrawler(player_data))
    /\ UNCHANGED <<player_data, brawler_stats, brawler_metrics, brawler_details, outsideBrawlers>>

\* calculate_brawler_statistics(player_data) (main.py line 530)
BrawlerStatistics ==
    /\ pc = "highest"
    /\ IF CalculateBrawlerStatisticsRaises(player_data)
       THEN pc' = "raised" /\ brawler_stats' = Raised
       ELSE pc' = "summed" /\ brawler_stats' = Returned(CalculateBrawlerStatistics(player_data))
    /\ UNCHANGED <<player_data, highest_brawler, brawler_metrics, brawler_details, outsideBrawlers>>

\* display_brawler_stats(brawler_stats, column) (main.py line 533)
DisplayBrawlerStats ==
    /\ pc = "summed"
    /\ pc' = "displayed"
    /\ brawler_metrics' = Returned(BrawlerMetrics(brawler_stats.value))
    /\ UNCHANGED <<player_data, highest_brawler, brawler_stats, brawler_details, outsideBrawlers>>

\* format_brawler_details(player_data) (main.py line 540)
BrawlerDetails ==
    /\ pc = "displayed"
    /\ pc' = "detailed"
    /\ brawler_details' = Returned(FormatBrawlerDetails(player_data))
    /\ UNCHANGED <<player_data, highest_brawler, brawler_stats, brawler_metrics, outsideBrawlers>>

NextBrawlers == HighestTrophyBrawler \/ BrawlerStatistics \/ DisplayBrawlerStats \/ BrawlerDetails

SpecBrawlers == InitBrawlers /\ [][NextBrawlers]_vars

(***************************************************************************)
(* The battle-log section of the comparison page (main.py): the logs of    *)
(* two players are loaded, formatted, charted and shown in two columns.    *)
(***************************************************************************)
\* the methods class BrawlStarsDataProcessor defines
ProcessorMethods ==
    {"calculate_battle_statistics", "_is_victory", "format_battle_log", "_format_single_battle",
     "_format_battle_time", "_get_battle_mode", "_get_battle_type", "_get_battle_result",
     "_format_trophy_change", "_check_star_player", "_get_player_brawler", "_get_power_level",
     "calculate_brawler_statistics", "format_brawler_details", "get_highest_trophy_brawler"}

\* self.data_processor.<method>: an attribute the class does not define
\* raises AttributeError
Provides(method) == method \in ProcessorMethods

\* `if battles1 and battles2`: None and the empty dict are false
Truthy(value) == IF DOMAIN value = {} THEN FALSE ELSE value # PyNone

\* df['Trophy Change'] on pd.DataFrame(rows): a frame built from no rows has
\* no columns and the lookup raises KeyError
TrophyColumnRaises(rows) == rows = <<>>

\* pd.DataFrame({name1: column1, name2: column2}) raises ValueError when the
\* two columns differ in length
ChartFrameRaises(rows1, rows2) == Len(rows1) # Len(rows2)

\* what `with col1:` / `with col2:` does for one player's rows
ColumnOutcome(rows) ==
    IF rows = <<>> THEN "skipped"
    ELSE IF CalculateRaises(rows) THEN "calculate_battle_statistics raised"
    ELSE IF ~Provides("has_extended_statistics") THEN "AttributeError"
    ELSE "table"

\* the records of the logs the page loads
PageRecords ==
    {Rec(TeamBattle),
     Rec(Merge(Without(TeamBattle, {"result", "starPlayer"}), [mode |-> S_soloShowdown, rank |-> 2])),
     Without(Rec(TeamBattle), {"battle"})}

\* what get_battle_log returns: None, or a log
PageLogs == {PyNone} \cup {[items |-> q] : q \in SeqsUpTo(PageRecords, MaxPageItems)}

\* the comparison page with the two players' logs fetched (lines 546-547)
InitPage ==
    /\ pc = "logs"
    /\ battles1 \in PageLogs
    /\ battles2 \in PageLogs
    /\ formatted1 = NotRun
    /\ formatted2 = NotRun
    /\ page_error = "none"
    /\ tables_shown = 0
    /\ IdleOutsidePage

\* `if battles1 and battles2:` _display_battle_logs(...) (lines 549-551)
EnterBattleLogs ==
    /\ pc = "logs"
    /\ pc' = IF Truthy(battles1) /\ Truthy(battles2) THEN "entered" ELSE "no logs"
    /\ UNCHANGED <<pageVars, outsidePage>>

\* the trophy progress chart (lines 604-629): both logs are formatted, each
\* frame's 'Trophy Change' column is read, the two columns are put in one frame
TrophyChart ==
    /\ pc = "entered"
    /\ LET raises1 == FormatBattleLogRaises(battles1, TagAB)
           raises2 == FormatBattleLogRaises(battles2, TagCD)
           rows1 == FormattedRows(battles1, TagAB)
           rows2 == FormattedRows(battles2, TagCD)
       IN  /\ formatted1' = IF raises1 THEN Raised ELSE Returned(rows1)
           /\ formatted2' = IF raises1 \/ TrophyColumnRaises(rows1) THEN NotRun
                            ELSE IF raises2 THEN Raised ELSE Returned(rows2)
           /\ page_error' =
                IF raises1 THEN "format_battle_log raised"
                ELSE IF TrophyColumnRaises(rows1) THEN "KeyError"
                ELSE IF raises2 THEN "format_battle_log raised"
                ELSE IF TrophyColumnRaises(rows2) THEN "KeyError"
                ELSE IF ChartFrameRaises(rows1, rows2) THEN "ValueError"
                ELSE "none"
    /\ pc' = IF page_error' = "none" THEN "charted" ELSE "failed"
    /\ UNCHANGED <<battles1, battles2, tables_shown, outsidePage>>

\* the two columns (lines 632-671): statistics, the extended-statistics
\* link and the battle table of player 1, then of player 2
BattleLogColumns ==
    /\ pc = "charted"
    /\ LET first == ColumnOutcome(formatted1.value)
           second == ColumnOutcome(formatted2.value)
           shown1 == IF first = "table" THEN 1 ELSE 0
       IN  IF first \notin {"skipped", "table"}
           THEN page_error' = first /\ tables_shown' = 0 /\ pc' = "failed"
           ELSE IF second \notin {"skipped", "table"}
           THEN page_error' = second /\ tables_shown' = shown1 /\ pc' = "failed"
           ELSE /\ page_error' = "none"
                /\ tables_shown' = shown1 + (IF second = "table" THEN 1 ELSE 0)
                /\ pc' = "columns"
    /\ UNCHANGED <<battles1, battles2, formatted1, formatted2, outsidePage>>

NextPage == EnterBattleLogs \/ TrophyChart \/ BattleLogColumns

SpecPage == InitPage /\ [][NextPage]_vars

(***************************************************************************)
(* inject_ga (main.py): at every script run the Google Analytics snippet   *)
(* is put into Streamlit's index.html.  A file is a sequence of elements,  *)
(* each with its tag as written, its id attribute and its src attribute.   *)
(***************************************************************************)
Element(tag, id, src) == [tag |-> tag, id |-> id, src |-> src]

\* GA_ID (line 25)
GA_ID == "google_analytics"

\* GA_JS (lines 27-37): the loader script and the inline script; neither
\* carries an id attribute
GA_JS == <<Element("script", "", "gtag/js?id=G-NCG7739DG5"), Element("script", "", "")>>

\* html.parser lower-cases tag names
LowerTag(tag) == IF tag = "HEAD" THEN "head" ELSE tag

\* BeautifulSoup(index_path.read_text(), "html.parser") (line 42)
ParseHtml(text) == [i \in DOMAIN text |-> [text[i] EXCEPT !.tag = LowerTag(@)]]

\* soup.find(id=GA_ID) (line 43)
FindId(soup, id) == \E i \in DOMAIN soup : soup[i].id = id

\* the literal '<head>': a head tag in lower case without attributes
IsHeadOpen(element) == element.tag = "head" /\ element.id = "" /\ element.src = ""

\* html.replace('<head>', '<head>\n' + GA_JS) (line 50): after every '<head>'
RECURSIVE InjectAfterHead(_)
InjectAfterHead(html) ==
    IF html = <<>> THEN <<>>
    ELSE (IF IsHeadOpen(Head(html)) THEN <<Head(html)>> \o GA_JS ELSE <<Head(html)>>)
             \o InjectAfterHead(Tail(html))

\* the elements an installed index.html is made of
HtmlElements ==
    {Element("head", "", ""), Element("HEAD", "", ""), Element("title", "", ""),
     Element("div", GA_ID, ""), Element("script", "", "main.js")}

\* the installed files
InstalledFiles == SeqsUpTo(HtmlElements, MaxElements)

\* a fresh installation: no backup yet
InitFile ==
    /\ pc = "installed"
    /\ original_html \in InstalledFiles
    /\ index_html = original_html
    /\ bck_index = [exists |-> FALSE]
    /\ runs = 0
    /\ IdleOutsideFile

\* one script run: inject_ga() (lines 23-54)
InjectGa ==
    /\ pc = "installed"
    /\ runs < MaxRuns
    /\ runs' = runs + 1
    /\ LET soup == ParseHtml(index_html)
       IN  IF ~FindId(soup, GA_ID)
           THEN /\ bck_index' = IF bck_index.exists THEN bck_index
                                ELSE [exists |-> TRUE, text |-> index_html]
                /\ index_html' = InjectAfterHead(soup)
           ELSE UNCHANGED <<index_html, bck_index>>
    /\ UNCHANGED <<pc, original_html, outsideFile>>

NextFile == InjectGa

SpecFile == InitFile /\ [][NextFile]_vars

(***************************************************************************)
(* The player selection of the comparison page (main.py).  A value that    *)
(* may be a string or None is PyNone or a string wrapped by PyStr.         *)
(***************************************************************************)
PyStr(text) == [str |-> text]

\* `if player1_tag`: None and the empty string are false
TagTruthy(value) == IF value = PyNone THEN FALSE ELSE value.str # <<>>

\* the names of CLUB_TAGS (lines 67-73) the model follows
ClubNames == {"Venom Vipers", "grand"}

\* list(club_info.keys()).index("Venom Vipers") (lines 337, 380): ValueError
\* when that club is not among the loaded ones
ClubIndexRaises(info) == "Venom Vipers" \notin info

\* f"{m['name']} ({m['tag']})" (line 342)
MemberText(member) == member.name \o <<" ", "(">> \o member.tag \o <<")">>

\* text.split('(')[1]: what stands between the first '(' and the next one
RECURSIVE UpToParen(_)
UpToParen(text) ==
    IF text = <<>> \/ Head(text) = "(" THEN <<>>
    ELSE <<Head(text)>> \o UpToParen(Tail(text))

RECURSIVE AfterParen(_)
AfterParen(text) ==
    IF text = <<>> THEN <<>>
    ELSE IF Head(text) = "(" THEN Tail(text)
    ELSE AfterParen(Tail(text))

SecondSegment(text) == UpToParen(AfterParen(text))

\* text.rstrip(')')
RECURSIVE RStripParen(_)
RStripParen(text) ==
    IF text # <<>> /\ text[Len(text)] = ")" THEN RStripParen(SubSeq(text, 1, Len(text) - 1))
    ELSE text

\* player.split('(')[1].rstrip(')') (line 351)
TagFromMember(text) == RStripParen(SecondSegment(text))

\* one column of _setup_player_selection (lines 322-362, 364-405): whether
\* it raises, and the tag it leaves in player<n>_tag
ColumnRaises(choice, info) == choice.mode = "club" /\ ClubIndexRaises(info)

ColumnTag(choice) ==
    IF choice.mode = "club"
    THEN IF choice.members = PyNone THEN PyNone
         ELSE IF choice.members.items = <<>> THEN PyNone
         ELSE PyStr(TagFromMember(MemberText(choice.members.items[choice.pick])))
    ELSE IF choice.text # <<>> /\ choice.text[1] # "#" THEN PyNone
         ELSE PyStr(choice.text)

\* get_player_info(tag) returned data
PlayerInfo(tag, known) == tag.str \in known

\* _setup_player_selection(club_info) raises
SetupPlayerSelectionRaises(first, second, info) ==
    ColumnRaises(first, info) \/ ColumnRaises(second, info)

\* what _setup_player_selection(club_info) returns (lines 407-422)
SetupPlayerSelection(first, second, known) ==
    LET player1_tag == ColumnTag(first)
        player2_tag == ColumnTag(second)
    IN  IF TagTruthy(player1_tag) /\ TagTruthy(player2_tag)
           /\ (~PlayerInfo(player1_tag, known) \/ ~PlayerInfo(player2_tag, known))
        THEN <<PyNone, PyNone>>
        ELSE <<player1_tag, player2_tag>>

\* the members a club can have
ClubMembers ==
    {[name |-> <<"a","b">>, tag |-> TagAB], [name |-> <<"a","(","b">>, tag |-> TagCD]}

\* what the user does in one column and what get_club_members answers
Choices ==
    {[mode |-> "direct", text |-> t] : t \in {<<>>, TagAB, TagNoHash}}
    \cup {[mode |-> "club", members |-> PyNone, pick |-> 0],
          [mode |-> "club", members |-> [items |-> <<>>], pick |-> 0]}
    \cup UNION {{[mode |-> "club", members |-> [items |-> q], pick |-> i] : i \in 1..Len(q)} :
                    q \in SeqsUpTo(ClubMembers, MaxMembers)}

\* the comparison page is opened
InitSelect ==
    /\ pc = "page"
    /\ club_responses \in SUBSET ClubNames
    /\ club_info = {}
    /\ choice1 \in Choices
    /\ choice2 \in Choices
    /\ found \in SUBSET {TagAB, TagCD}
    /\ selection = NotRun
    /\ comparison_shown = FALSE
    /\ IdleOutsideSelect

\* club_info = self._load_club_info() (lines 309-316): the clubs that answered
LoadClubInfo ==
    /\ pc = "page"
    /\ pc' = "clubs"
    /\ club_info' = {name \in ClubNames : name \in club_responses}
    /\ UNCHANGED <<club_responses, choice1, choice2, found, selection, comparison_shown,
                    outsideSelect>>

\* player1_tag, player2_tag = self._setup_player_selection(club_info)
SetupSelection ==
    /\ pc = "clubs"
    /\ IF SetupPlayerSelectionRaises(choice1, choice2, club_info)
       THEN pc' = "selection raised" /\ selection' = Raised
       ELSE /\ pc' = "selected"
            /\ selection' = Returned(SetupPlayerSelection(choice1, choice2, found))
    /\ UNCHANGED <<club_responses, club_info, choice1, choice2, found, comparison_shown,
                    outsideSelect>>

\* `if player1_tag and player2_tag:` _display_player_comparison(...) (lines 143-144)
ShowComparison ==
    /\ pc = "selected"
    /\ pc' = "compared"
    /\ comparison_shown' = (TagTruthy(selection.value[1]) /\ TagTruthy(selection.value[2]))
    /\ UNCHANGED <<club_responses, club_info, choice1, choice2, found, selection, outsideSelect>>

NextSelect == LoadClubInfo \/ SetupSelection \/ ShowComparison

SpecSelect == InitSelect /\ [][NextSelect]_vars

(***************************************************************************)
(* Tags in URLs: BrawlStarsAPI._clean_tag (api_client.py), the link to the *)
(* extended statistics and the page that reads it (main.py).               *)
(***************************************************************************)
S_Percent23 == <<"%","2","3">>
S_Percent20 == <<"%","2","0">>

\* tag.startswith('#')
StartsWithHash(text) == text # <<>> /\ text[1] = "#"

\* str.upper()
Upper(text) == [i \in DOMAIN text |-> UpperChar(text[i])]

\* text.replace(old, new) for a one-character old
RECURSIVE ReplaceChar(_, _, _)
ReplaceChar(text, old, new) ==
    IF text = <<>> THEN <<>>
    ELSE (IF Head(text) = old THEN new ELSE <<Head(text)>>) \o ReplaceChar(Tail(text), old, new)

\* _clean_tag that puts a '#' in front of every tag
CleanTag_AlwaysPrefixed(text) ==
    ReplaceChar(ReplaceChar(Upper(<<"#">> \o text), "#", S_Percent23), " ", <<>>)

\* _clean_tag(tag) (api_client.py lines 27-31)
CleanTag(text) ==
    LET hashed == IF ~StartsWithHash(text) THEN <<"#">> \o text ELSE text
    IN  ReplaceChar(ReplaceChar(Upper(hashed), "#", S_Percent23), " ", <<>>)

\* player1_tag.replace('#', '%23') in the link (main.py line 644)
ExtendedStatsLink(text) == ReplaceChar(text, "#", S_Percent23)

\* the browser writes a space of the href as %20
HrefEncode(text) == ReplaceChar(text, " ", S_Percent20)

\* st.query_params decodes the value: %23 is '#', %20 and '+' are a space
RECURSIVE UrlDecode(_)
UrlDecode(text) ==
    IF text = <<>> THEN <<>>
    ELSE IF Len(text) >= 3 /\ SubSeq(text, 1, 3) = S_Percent23
         THEN <<"#">> \o UrlDecode(SubSeq(text, 4, Len(text)))
    ELSE IF Len(text) >= 3 /\ SubSeq(text, 1, 3) = S_Percent20
         THEN <<" ">> \o UrlDecode(SubSeq(text, 4, Len(text)))
    ELSE IF Head(text) = "+" THEN <<" ">> \o UrlDecode(Tail(text))
    ELSE <<Head(text)>> \o UrlDecode(Tail(text))

\* text.replace('%23', '') (main.py line 905)
RECURSIVE RemovePercent23(_)
RemovePercent23(text) ==
    IF text = <<>> THEN <<>>
    ELSE IF Len(text) >= 3 /\ SubSeq(text, 1, 3) = S_Percent23
         THEN RemovePercent23(SubSeq(text, 4, Len(text)))
    ELSE <<Head(text)>> \o RemovePercent23(Tail(text))

\* the tag _show_extended_stats_page works with (main.py lines 897-905)
ExtendedPageTag(param) ==
    IF param = <<>> THEN [status |-> "no player"]
    ELSE IF ~StartsWithHash(param) THEN Returned(<<"#">> \o RemovePercent23(param))
    ELSE Returned(param)

\* the characters of the tags: '#', letters in both cases, digits, a space
TagChars == {"#", "a", "B", "2", "3", " "}

TagTexts == SeqsUpTo(TagChars, MaxTagLen)

\* a caller holding a tag
InitTag ==
    /\ pc = "tag"
    /\ given_tag \in TagTexts
    /\ url_fragment = NotRun
    /\ link = NotRun
    /\ page_tag = NotRun
    /\ IdleOutsideTag

\* clean_tag = self._clean_tag(tag) in the API client
CleanTagStep ==
    /\ pc = "tag"
    /\ pc' = "cleaned"
    /\ url_fragment' = Returned(CleanTag(given_tag))
    /\ UNCHANGED <<given_tag, link, page_tag, outsideTag>>

\* the link to the extended statistics is written for the tag
BuildLink ==
    /\ pc = "cleaned"
    /\ pc' = "linked"
    /\ link' = Returned(ExtendedStatsLink(given_tag))
    /\ UNCHANGED <<given_tag, url_fragment, page_tag, outsideTag>>

\* the link is followed: _show_extended_stats_page reads player_tag
OpenExtendedStats ==
    /\ pc = "linked"
    /\ pc' = "opened"
    /\ page_tag' = ExtendedPageTag(UrlDecode(HrefEncode(link.value)))
    /\ UNCHANGED <<given_tag, url_fragment, link, outsideTag>>

NextTag == CleanTagStep \/ BuildLink \/ OpenExtendedStats

SpecTag == InitTag /\ [][NextTag]_vars

(***************************************************************************)
(* Independent callers of one BrawlStarsDataProcessor (main.py line 79):   *)
(* a call runs from its start to its return while other calls start and    *)
(* return; what a call writes is written while it runs, what it returns    *)
(* is computed from the structures as they are when it returns.            *)
(***************************************************************************)
Callers == {"first", "second"}

\* the five public functions of the processor
PublicFunctions ==
    {"format_battle_log", "calculate_battle_statistics", "calculate_brawler_statistics",
     "format_brawler_details", "get_highest_trophy_brawler"}

\* a processor whose format_brawler_details sorts in place, reversing
\* player_data['brawlers']
CallEffect_ReversesBrawlers(fn, inputs) ==
    IF fn = "format_brawler_details" /\ ~NoBrawlers(inputs.player_data)
    THEN LET listed == inputs.player_data.brawlers
         IN  [inputs EXCEPT !.player_data.brawlers =
                                [i \in DOMAIN listed |-> listed[Len(listed) + 1 - i]]]
    ELSE inputs

\* what a call leaves of the instance and of its arguments: no function
\* assigns to self or into an argument; formatted_battles (line 70), the
\* returned dicts (lines 18, 28, 317, 390), formatted_brawlers (line 339)
\* are new objects and sorted() (line 369) returns a new list
CallEffect(fn, inputs) == inputs

\* what a call returns, or that it raises
CallResult(fn, inputs) ==
    IF fn = "format_battle_log"
    THEN IF FormatBattleLogRaises(inputs.battles, TagAB) THEN Raised
         ELSE Returned(<<FormattedRows(inputs.battles, TagAB), StarPlayerCount(inputs.battles, TagAB)>>)
    ELSE IF fn = "calculate_battle_statistics"
    THEN IF CalculateRaises(inputs.formatted_battles) THEN Raised
         ELSE Returned(CalculateBattleStatistics(inputs.formatted_battles))
    ELSE IF fn = "calculate_brawler_statistics"
    THEN IF CalculateBrawlerStatisticsRaises(inputs.player_data) THEN Raised
         ELSE Returned(CalculateBrawlerStatistics(inputs.player_data))
    ELSE IF fn = "format_brawler_details"
    THEN Returned(FormatBrawlerDetails(inputs.player_data))
    ELSE Returned(GetHighestTrophyBrawler(inputs.player_data))

\* the structures the callers share: a processor without attributes (the
\* class has no __init__), a raw log, formatted rows and a player record
SharedInputs ==
    [instance : {{}},
     battles : {[items |-> <<>>], [items |-> <<Rec(TeamBattle)>>],
                [items |-> <<Rec(TeamBattle), Without(Rec(TeamBattle), {"battle"})>>]},
     formatted_battles : {<<>>, <<Row(StrTitle(S_gemGrab), <<>>, S_Victory),
                                  Row(StrTitle(S_soloShowdown), <<"#","2">>, <<>>)>>},
     player_data : {PlayerRecord(<<>>),
                    PlayerRecord(<<Brawler(Crow.name, 9, 500), Brawler(Leon.name, 11, 500)>>),
                    PlayerRecord(<<Brawler(Leon.name, 11, 300), Brawler(Crow.name, 9, 500)>>)}]

NoCall == [fn |-> "none", status |-> "idle", result |-> NotRun, overlapped |-> FALSE, made |-> 0]

\* no call has been made
InitCall ==
    /\ pc = "callers"
    /\ given_inputs \in SharedInputs
    /\ shared_inputs = given_inputs
    /\ calls = [c \in Callers |-> NoCall]
    /\ IdleOutsideCall

\* a caller starts a call of one of the public functions
BeginCall ==
    \E c \in Callers, fn \in PublicFunctions :
        /\ calls[c].status # "running"
        /\ calls[c].made < MaxCalls
        /\ LET concurrent == \E o \in Callers \ {c} : calls[o].status = "running"
           IN  calls' = [o \in Callers |->
                           IF o = c
                           THEN [fn |-> fn, status |-> "running", result |-> NotRun,
                                 overlapped |-> concurrent, made |-> calls[c].made + 1]
                           ELSE IF calls[o].status = "running"
                           THEN [calls[o] EXCEPT !.overlapped = TRUE]
                           ELSE calls[o]]
        /\ shared_inputs' = CallEffect(fn, shared_inputs)
        /\ UNCHANGED <<pc, given_inputs, outsideCall>>

\* a running call returns
EndCall ==
    \E c \in Callers :
        /\ calls[c].status = "running"
        /\ calls' = [calls EXCEPT ![c].status = "returned",
                                  ![c].result = CallResult(calls[c].fn, shared_inputs)]
        /\ UNCHANGED <<pc, shared_inputs, given_inputs, outsideCall>>

NextCall == BeginCall \/ EndCall

SpecCall == InitCall /\ [][NextCall]_vars

(***************************************************************************)
(* Properties.                                                             *)
(***************************************************************************)
\* format_battle_log has acted and returned
HasReturned == pc \in {"formatted", "counted", "shown"}
\* calculate_battle_statistics has acted
HasCounted == pc \in {"counted", "shown"}

Min(a, b) == IF a <= b THEN a ELSE b
\* tag.replace('#', ''): the tag with the '#' prefix ignored
StripHash(tag) == StrReplace(tag, S_Hash, <<>>)

\* the records of the log whose processing does not raise, in order
ProcessedItems ==
    LET ok(r) == ~RecordRaises(r, player_tag)
    IN  SelectSeq(Items(battles), ok)

\* C1: a record whose processing raises is skipped and the batch is never
\* aborted: once format_battle_log has acted it has returned, its rows are
\* those of the other records, in order, and starPlayerCount counts only them.
C1_RaisingRecordSkipped ==
    pc # "start" =>
        /\ pc # "raised"
        /\ formatted_battles = [i \in DOMAIN ProcessedItems |-> FormatRecord(ProcessedItems[i], player_tag)]
        /\ star_player_count =
               Cardinality({i \in DOMAIN ProcessedItems : IsStarPlayer(ProcessedItems[i].battle, player_tag)})

\* the number of entries the spec says are processed at most
RowCap == 20

\* C2: format_battle_log returns at most min(20, number of items) rows.
C2_AtMostTwentyRows ==
    HasReturned => Len(formatted_battles) <= Min(RowCap, Len(Items(battles)))

\* C3: calculate_battle_statistics returns a value and never raises, whatever
\* the rows: showdown rows without a Rank or with a rank that is no number,
\* rows without Result or Mode.
C3_StatisticsNeverRaise ==
    HasCounted => stats.status = "returned"

\* win rule A as the claim states it, on a row that has the fields it reads:
\* showdown rows are decided by the rank alone, a missing rank is no win
HasRank(row) == Has(row, "Rank") /\ row.Rank # <<>> /\ ~IntRaises(RankOf(row))
RuleA(row) ==
    LET mode == StrLower(row.Mode)
    IN  IF mode = S_soloshowdown THEN HasRank(row) /\ StrInt(RankOf(row)) <= 4
        ELSE IF mode = S_duoshowdown THEN HasRank(row) /\ StrInt(RankOf(row)) <= 2
        ELSE StrLower(row.Result) = S_victory

\* C4: a match counts as a win iff rule A says so; a solo or duo showdown
\* match is never decided by its result, also when its rank is missing. The
\* victories counted are the rows that win under rule A.
C4_WinIffRuleA ==
    (HasCounted /\ stats.status = "returned") =>
        stats.value.victories =
            Cardinality({i \in DOMAIN formatted_battles : RuleA(formatted_battles[i])})

\* the Result field reads as the victory label
ReadsVictory(row) == Has(row, "Result") /\ StrLower(row.Result) = S_victory

ShowdownLimit(row) ==
    IF StrLower(row.Mode) = S_soloshowdown THEN 4
    ELSE IF StrLower(row.Mode) = S_duoshowdown THEN 2
    ELSE 0
WinsByRankOrResult(row) ==
    IF ShowdownLimit(row) # 0 /\ row.Rank # <<>>
    THEN StrInt(RankOf(row)) <= ShowdownLimit(row)
    ELSE ReadsVictory(row)

C6_OneWinRule ==
    (pc = "shown" /\ stats.status = "returned" /\ ui_victories.status = "returned") =>
        stats.value.victories = ui_victories.value

\* the first participant of the teams whose tag is the subject's with '#'
\* ignored on both sides, 0 when there is none
FirstIgnoringHash(players, subject) ==
    IF \E i \in DOMAIN players : StripHash(players[i].tag) = StripHash(subject)
    THEN CHOOSE i \in DOMAIN players :
            /\ StripHash(players[i].tag) = StripHash(subject)
            /\ \A j \in 1..(i - 1) : StripHash(players[j].tag) # StripHash(subject)
    ELSE 0

\* C7: in a non-duel match the subject is located with '#' ignored on both
\* sides: the row carries the brawler name, power and trophies of the
\* participant whose tag equals the subject's apart from '#'.
C7_SubjectFoundIgnoringHash ==
    HasReturned =>
        \A i \in DOMAIN Items(battles) :
            LET b == Items(battles)[i].battle
                players == IF Has(b, "teams") THEN AllTeamPlayers(b) ELSE <<>>
                m == FirstIgnoringHash(players, player_tag)
            IN  (~IsDuels(b) /\ m # 0) =>
                    /\ formatted_battles[i].Brawler = StrTitle(players[m].brawler.name)
                    /\ formatted_battles[i].Power = players[m].brawler.power
                    /\ formatted_battles[i].Trophies = players[m].brawler.trophies

\* C8: starPlayerCount is the number of records whose starPlayer tag equals
\* the subject tag after stripping '#' from both, and the number of rows
\* whose Star Player marker is set.
C8_StarCountIgnoringHash ==
    HasReturned =>
        /\ star_player_count =
               Cardinality({i \in DOMAIN Items(battles) :
                   LET b == Items(battles)[i].battle
                   IN  /\ Has(b, "starPlayer")
                       /\ Has(b.starPlayer, "tag")
                       /\ StripHash(b.starPlayer.tag) = StripHash(player_tag)})
        /\ star_player_count =
               Cardinality({i \in DOMAIN formatted_battles : formatted_battles[i].Star_Player = S_Star})

\* a record with the fields of the battle-log schema
HasSchemaFields(record) ==
    /\ Has(record, "battle") /\ Has(record, "event") /\ Has(record, "battleTime")
    /\ Has(record.battle, "mode")

\* the subject is neither in the flat player list nor in a team, not even
\* with '#' ignored
SubjectInNoRoster(b, subject) ==
    /\ FirstIgnoringHash(Get(b, "players", <<>>), subject) = 0
    /\ FirstIgnoringHash(IF Has(b, "teams") THEN AllTeamPlayers(b) ELSE <<>>, subject) = 0

\* C9: a record in which the subject is in no roster still yields a row, with
\* Brawler 'Unknown', Power 0 and Trophies 0.
C9_UnknownRowEmitted ==
    pc # "start" =>
        \A i \in DOMAIN Items(battles) :
            LET record == Items(battles)[i]
            IN  (HasSchemaFields(record) /\ SubjectInNoRoster(record.battle, player_tag)) =>
                    /\ pc # "raised"
                    /\ formatted_battles[i].Brawler = S_Unknown
                    /\ formatted_battles[i].Power = 0
                    /\ formatted_battles[i].Trophies = 0

\* the label the claim gives a raw result
ResultLabel(b) ==
    LET result == StrLower(Get(b, "result", <<>>))
    IN  IF result = S_victory THEN S_Victory
        ELSE IF result = S_defeat THEN S_Defeat
        ELSE IF result = S_draw THEN S_Draw
        ELSE S_NoResult

\* C10: the Result of a row is 'Victory', 'Defeat' or 'Draw' for a raw result
\* victory, defeat or draw in any letter case and 'No Result' for every other
\* raw value or an absent one.
C10_ResultLabel ==
    HasReturned =>
        \A i \in DOMAIN Items(battles) :
            formatted_battles[i].Result = ResultLabel(Items(battles)[i].battle)

\* on the logs format_battle_log returns for, the subject missing from the
\* rosters the loop reads gives the sentinel row
FallbackWhenReturned ==
    HasReturned =>
        \A i \in DOMAIN Items(battles) :
            SubjectInNoRoster(Items(battles)[i].battle, player_tag) =>
                /\ formatted_battles[i].Brawler = S_Unknown
                /\ formatted_battles[i].Power = 0
                /\ formatted_battles[i].Trophies = 0

(***************************************************************************)
(* Properties of the rows of format_battle_log.                            *)
(***************************************************************************)
\* the subject's tag appears, exactly as given, in the flat player list of a
\* duels battle
FoundInDuel(b) ==
    /\ IsDuels(b) /\ Has(b, "players")
    /\ \E j \in DOMAIN b.players : b.players[j].tag = player_tag

\* the brawlers the subject used in the duel, in the order of the record
UsedBrawlers(b) ==
    LET j == CHOOSE k \in DOMAIN b.players :
                 /\ b.players[k].tag = player_tag
                 /\ \A h \in 1..(k - 1) : b.players[h].tag # player_tag
    IN  b.players[j].brawlers

\* C13: in a duels battle whose flat player list holds the subject, the row's
\* Power is the sum of the powers and Trophies the sum of the trophies of the
\* brawlers the subject used, and Brawler is their names (in title case, as
\* every brawler name of a row) joined with ' → ' in the order of the record.
C13_DuelSumsAndPath ==
    HasReturned =>
        \A i \in DOMAIN formatted_battles :
            LET b == Items(battles)[i].battle
                row == formatted_battles[i]
            IN  FoundInDuel(b) =>
                    LET used == UsedBrawlers(b)
                    IN  /\ row.Power = SumSeq([k \in DOMAIN used |-> used[k].power])
                        /\ row.Trophies = SumSeq([k \in DOMAIN used |-> used[k].trophies])
                        /\ row.Brawler = StrJoin(S_Arrow, [k \in DOMAIN used |-> StrTitle(used[k].name)])

\* a duel the subject played with CROW (9, 500) then LEON (11, 300) has been
\* formatted: 'Crow → Leon', power 20, trophies 800
C13_Witness ==
    /\ HasReturned
    /\ \E i \in DOMAIN formatted_battles :
           /\ FoundInDuel(Items(battles)[i].battle)
           /\ Len(UsedBrawlers(Items(battles)[i].battle)) = 2
           /\ formatted_battles[i].Brawler = <<"C","r","o","w"," ","→"," ","L","e","o","n">>
           /\ formatted_battles[i].Power = 20
           /\ formatted_battles[i].Trophies = 800

\* C14: the rows format_battle_log returns are in the order of 'items': row i
\* is the row of record i, and its fields come from record i alone.
C14_RowsInInputOrder ==
    HasReturned =>
        /\ Len(formatted_battles) = Len(Items(battles))
        /\ \A i \in DOMAIN formatted_battles :
               LET battle == Items(battles)[i]
                   row == formatted_battles[i]
               IN  /\ row = FormatRecord(battle, player_tag)
                   /\ row.Mode = StrTitle(battle.battle.mode)
                   /\ row.Result = StrTitle(Get(battle.battle, "result", <<>>))
                   /\ row.Trophy_Change = Get(battle.battle, "trophyChange", 0)
                   /\ row.Rank = (IF Has(battle.battle, "rank")
                                  THEN S_Hash \o IntStr(battle.battle.rank) ELSE <<>>)

\* a log of two records whose rows differ has been formatted
C14_Witness ==
    /\ HasReturned
    /\ Len(formatted_battles) = 2
    /\ formatted_battles[1] # formatted_battles[2]
    /\ formatted_battles[1].Mode # formatted_battles[2].Mode

(***************************************************************************)
(* Properties of the numbers of calculate_battle_statistics.               *)
(***************************************************************************)
\* C15: on an empty sequence calculate_battle_statistics returns
\* total_games 0, victories 0 and win_rate 0.0, and divides by nothing.
C15_EmptySequenceAllZero ==
    (HasCounted /\ formatted_battles = <<>>) =>
        /\ stats.status = "returned"
        /\ stats.value.total_games = 0
        /\ stats.value.victories = 0
        /\ stats.value.win_rate.den # 0
        /\ stats.value.win_rate.num = 0

\* the statistics of no rows have been computed
C15_Witness ==
    /\ pc = "counted"
    /\ formatted_battles = <<>>
    /\ stats.status = "returned"

\* the rows are three rows of a mode other than showdown, two reading
\* 'Victory' and one 'Defeat'
TwoOfThreeWon ==
    /\ Len(formatted_battles) = 3
    /\ \A i \in 1..3 :
           /\ Has(formatted_battles[i], "Mode") /\ Has(formatted_battles[i], "Result")
           /\ StrLower(formatted_battles[i].Mode) \notin {S_soloshowdown, S_duoshowdown}
    /\ Cardinality({i \in 1..3 : formatted_battles[i].Result = S_Victory}) = 2
    /\ Cardinality({i \in 1..3 : formatted_battles[i].Result = S_Defeat}) = 1

MatchesFixedFormat(t) ==
    /\ Len(t) = 20
    /\ \A i \in (1..8) \cup (10..15) : IsIn(t[i], Digits)
    /\ t[9] = "T"
    /\ SubSeq(t, 16, 20) = S_Millis

\* the record with the sample timestamp in place of its own battleTime
WithSampleTime(battle) == Merge(battle, [battleTime |-> SampleTime])

\* C22: the Time field of a row is the reformatted timestamp when battleTime
\* has the fixed format and the sentinel 'Unknown' when it does not parse;
\* formatting the time never raises: a log that raises also raises with every
\* battleTime replaced by the sample timestamp.
C22_TimeParsedOrUnknown ==
    /\ pc = "raised" =>
           \E i \in DOMAIN Items(battles) : RecordRaises(WithSampleTime(Items(battles)[i]), player_tag)
    /\ HasReturned =>
           \A i \in DOMAIN formatted_battles :
               IF MatchesFixedFormat(Items(battles)[i].battleTime)
               THEN formatted_battles[i].Time # S_Unknown
               ELSE formatted_battles[i].Time = S_Unknown

(***************************************************************************)
(* Properties of format_battle_log followed by calculate_battle_statistics *)
(***************************************************************************)
\* win rule A on the raw fields of a record: a showdown match is decided by
\* its rank, every other match by its result read case-insensitively
RawRuleA(b) ==
    IF b.mode = S_soloShowdown THEN Has(b, "rank") /\ b.rank <= 4
    ELSE IF b.mode = S_duoShowdown THEN Has(b, "rank") /\ b.rank <= 2
    ELSE StrLower(Get(b, "result", <<>>)) = S_victory

\* the rule of _is_victory on the raw fields: a showdown match that has a
\* rank is decided by the rank, every other match by its result
RawRankOrResult(b) ==
    IF b.mode = S_soloShowdown /\ Has(b, "rank") THEN b.rank <= 4
    ELSE IF b.mode = S_duoShowdown /\ Has(b, "rank") THEN b.rank <= 2
    ELSE StrLower(Get(b, "result", <<>>)) = S_victory

\* C26: format_battle_log followed by calculate_battle_statistics counts as
\* victories the raw records that win under rule A applied to the raw mode,
\* rank and result: the display formatting changes no win decision.
C26_RawRuleASurvivesFormatting ==
    (HasCounted /\ stats.status = "returned") =>
        stats.value.victories =
            Cardinality({i \in DOMAIN Items(battles) : RawRuleA(Items(battles)[i].battle)})

\* the title-casing of mode and result and the '#' of the rank change no
\* decision of _is_victory: the victories are the raw records that win under
\* its rule applied to the raw fields
FormattingKeepsDecisions ==
    (HasCounted /\ stats.status = "returned") =>
        stats.value.victories =
            Cardinality({i \in DOMAIN Items(battles) : RawRankOrResult(Items(battles)[i].battle)})

(***************************************************************************)
(* Properties of _format_trophy_change.                                    *)
(***************************************************************************)
\* the record carries a trophy change
HasTrophyChange ==
    Has(single_battle, "battle") /\ Has(single_battle.battle, "trophyChange")
\* the text _format_trophy_change returned
TrophyText == trophy_text.value

C12_TrophyChangeExamples ==
    pc = "text" =>
        /\ trophy_text.status = "returned"
        /\ HasTrophyChange =>
              LET n == single_battle.battle.trophyChange
              IN  /\ n = 42 => TrophyText = <<"+","4","2">>
                  /\ n = 0 - 15 => TrophyText = <<"-","1","5">>
                  /\ n = 0 => TrophyText = <<"0">>
        /\ ~HasTrophyChange => TrophyText = <<"0">>

\* a record without trophyChange has been formatted, as "0"
C12_Witness ==
    /\ pc = "text" /\ ~HasTrophyChange
    /\ trophy_text = Returned(<<"0">>)

(***************************************************************************)
(* Properties of the brawler functions.                                    *)
(***************************************************************************)
\* get_highest_trophy_brawler has acted
HasHighest == pc \in {"highest", "summed", "displayed", "detailed"}
\* calculate_brawler_statistics has acted
HasSummed == pc \in {"summed", "displayed", "detailed"}
\* the player record has a list of brawlers, and a non-empty one
HasBrawlerList == Has(player_data, "brawlers")
HasSomeBrawler == HasBrawlerList /\ player_data.brawlers # <<>>

\* C17: get_highest_trophy_brawler returns the name and trophies of a brawler
\* whose trophies (0 when absent) are maximal among the player's brawlers, the
\* first such brawler in input order; for an empty brawler list, or no
\* brawlers field, it returns an empty result without raising.
C17_FirstHighestBrawler ==
    HasHighest =>
        /\ highest_brawler.status = "returned"
        /\ IF HasSomeBrawler
           THEN LET brawlers == player_data.brawlers
                    result == highest_brawler.value
                IN  /\ DOMAIN result = {"name", "trophies"}
                    /\ \E i \in DOMAIN brawlers :
                           /\ \A j \in DOMAIN brawlers :
                                  Get(brawlers[j], "trophies", 0) <= Get(brawlers[i], "trophies", 0)
                           /\ \A j \in 1..(i - 1) :
                                  Get(brawlers[j], "trophies", 0) < Get(brawlers[i], "trophies", 0)
                           /\ result.name = brawlers[i].name
                           /\ result.trophies = Get(brawlers[i], "trophies", 0)
           ELSE DOMAIN highest_brawler.value = {}

\* two brawlers of different names tie on trophies and the first was returned
C17_Witness ==
    /\ pc = "highest"
    /\ HasSomeBrawler
    /\ Len(player_data.brawlers) = 2
    /\ player_data.brawlers[1].name # player_data.brawlers[2].name
    /\ Get(player_data.brawlers[1], "trophies", 0) = Get(player_data.brawlers[2], "trophies", 0)
    /\ highest_brawler.status = "returned"
    /\ highest_brawler.value.name = player_data.brawlers[1].name

\* the powers of the player's brawlers, in order
Powers == [i \in DOMAIN player_data.brawlers |-> player_data.brawlers[i].power]

\* C18: high_level_brawlers is the number of brawlers with power >= 9 and
\* max_level_brawlers the number with power = 11, so that max_level_brawlers <=
\* high_level_brawlers <= total_brawlers, in the value returned for a record
\* with a brawler list and in the numbers shown for every record; powers
\* [9, 11, 11, 5] give 3 and 2.
C18_PowerCounters ==
    /\ (HasSummed /\ HasBrawlerList) =>
          /\ brawler_stats.status = "returned"
          /\ LET result == brawler_stats.value
             IN  /\ result.total_brawlers = Len(Powers)
                 /\ result.high_level_brawlers = Cardinality({i \in DOMAIN Powers : Powers[i] >= 9})
                 /\ result.max_level_brawlers = Cardinality({i \in DOMAIN Powers : Powers[i] = 11})
                 /\ result.max_level_brawlers <= result.high_level_brawlers
                 /\ result.high_level_brawlers <= result.total_brawlers
                 /\ Powers = <<9, 11, 11, 5>> =>
                        result.high_level_brawlers = 3 /\ result.max_level_brawlers = 2
    /\ pc = "displayed" =>
          /\ brawler_metrics.value.max_level_brawlers <= brawler_metrics.value.high_level_brawlers
          /\ brawler_metrics.value.high_level_brawlers <= brawler_metrics.value.total_brawlers

\* the brawlers of powers 9, 11, 11, 5 have been counted: 3 and 2
C18_Witness ==
    /\ pc = "summed"
    /\ HasBrawlerList
    /\ Powers = <<9, 11, 11, 5>>
    /\ brawler_stats.status = "returned"
    /\ brawler_stats.value.high_level_brawlers = 3
    /\ brawler_stats.value.max_level_brawlers = 2

\* the length of a brawler's list, 0 for a brawler that lacks it
ListLen(brawler, key) == IF key \in DOMAIN brawler THEN Len(brawler[key]) ELSE 0

\* C19: total_gears, total_starpowers and total_gadgets are each the sum over
\* all brawlers of the length of the corresponding list, a brawler lacking the
\* list contributing 0 and never causing an error.
C19_EquipmentTotals ==
    (HasSummed /\ HasBrawlerList) =>
        /\ brawler_stats.status = "returned"
        /\ LET brawlers == player_data.brawlers
               result == brawler_stats.value
           IN  /\ result.total_gears = SumSeq([i \in DOMAIN brawlers |-> ListLen(brawlers[i], "gears")])
               /\ result.total_starpowers =
                      SumSeq([i \in DOMAIN brawlers |-> ListLen(brawlers[i], "starPowers")])
               /\ result.total_gadgets =
                      SumSeq([i \in DOMAIN brawlers |-> ListLen(brawlers[i], "gadgets")])

\* a brawler with two gears and one star power but no gadgets list, and a
\* brawler with no list at all, have been counted: 2, 1 and 0
C19_Witness ==
    /\ pc = "summed"
    /\ HasBrawlerList
    /\ Len(player_data.brawlers) = 2
    /\ DOMAIN player_data.brawlers[1] = {"name", "power", "trophies", "gears", "starPowers"}
    /\ DOMAIN player_data.brawlers[2] = {"name", "power", "trophies"}
    /\ brawler_stats.status = "returned"
    /\ brawler_stats.value.total_gears = 2
    /\ brawler_stats.value.total_starpowers = 1
    /\ brawler_stats.value.total_gadgets = 0

\* C20 as stated: for a player record with no 'brawlers' field,
\* calculate_brawler_statistics returns a result in which every counter is
\* present and equal to 0.
C20_EveryCounterPresentAndZero ==
    (HasSummed /\ ~HasBrawlerList) =>
        /\ brawler_stats.status = "returned"
        /\ \A k \in CounterKeys :
               k \in DOMAIN brawler_stats.value /\ brawler_stats.value[k] = 0

\* C20 amended: for a player record with no 'brawlers' field,
\* calculate_brawler_statistics returns, without failing, an empty result that
\* holds no counter; display_brawler_stats reads every counter of it as 0.
C20_EmptyResultShownAsZeros ==
    (pc \in {"summed", "displayed", "raised"} /\ ~HasBrawlerList) =>
        /\ brawler_stats.status = "returned"
        /\ DOMAIN brawler_stats.value = {}
        /\ pc = "displayed" =>
               /\ DOMAIN brawler_metrics.value = CounterKeys
               /\ \A k \in CounterKeys : brawler_metrics.value[k] = 0

\* the statistics of a record without 'brawlers' have been shown
C20_Witness ==
    /\ pc = "displayed"
    /\ ~HasBrawlerList
    /\ DOMAIN brawler_stats.value = {}
    /\ brawler_metrics.value.total_brawlers = 0


\* the trophies of the player's brawlers, in order (0 for a brawler without)
TrophiesOf == [i \in DOMAIN player_data.brawlers |-> Get(player_data.brawlers[i], "trophies", 0)]

\* C21: the brawler summary contains averageTrophies, equal to the sum of all
\* brawlers' trophies divided by the number of brawlers, and equal to 0 when
\* the player owns no brawlers.
C21_AverageTrophies ==
    (HasSummed /\ brawler_stats.status = "returned") =>
        /\ "averageTrophies" \in DOMAIN brawler_stats.value
        /\ IF HasSomeBrawler
           THEN brawler_stats.value.averageTrophies * Len(TrophiesOf) = SumSeq(TrophiesOf)
           ELSE brawler_stats.value.averageTrophies = 0


\* format_brawler_details has acted
HasDetailed == pc = "detailed"

\* where the row of brawler i stands: behind the brawlers of more trophies
\* and the earlier brawlers of equal trophies
RowPosition(i) ==
    1 + Cardinality({j \in DOMAIN TrophiesOf : TrophiesOf[j] > TrophiesOf[i]})
      + Cardinality({j \in 1..(i - 1) : TrophiesOf[j] = TrophiesOf[i]})

\* the text of a brawler's list is '-' exactly when the list is missing or empty
DashIffNoItems(brawler, key, text) ==
    (text = <<"-">>) <=> (key \notin DOMAIN brawler \/ brawler[key] = <<>>)

\* C28: format_brawler_details returns exactly one row per owned brawler,
\* ordered by Trophies in non-increasing order, brawlers of equal trophies in
\* input order, a missing trophies field counted as 0; a missing or empty
\* gears, starPowers or gadgets list is rendered as '-'.
C28_DetailsSortedStable ==
    (HasDetailed /\ HasBrawlerList) =>
        /\ brawler_details.status = "returned"
        /\ LET brawlers == player_data.brawlers
               rows == brawler_details.value
           IN  /\ Len(rows) = Len(brawlers)
               /\ \A k \in 1..(Len(rows) - 1) : rows[k].Trophies >= rows[k + 1].Trophies
               /\ \A i \in DOMAIN brawlers :
                      LET row == rows[RowPosition(i)]
                      IN  /\ row.Name = brawlers[i].name
                          /\ row.Power = brawlers[i].power
                          /\ row.Trophies = TrophiesOf[i]
                          /\ DashIffNoItems(brawlers[i], "gears", row.Gears)
                          /\ DashIffNoItems(brawlers[i], "starPowers", row.Star_Powers)
                          /\ DashIffNoItems(brawlers[i], "gadgets", row.Gadgets)

\* two brawlers of different names and equal trophies, the first without
\* equipment lists, have been formatted: input order kept, lists shown as '-'
C28_Witness ==
    /\ HasDetailed /\ HasBrawlerList
    /\ Len(player_data.brawlers) = 2
    /\ TrophiesOf[1] = TrophiesOf[2]
    /\ player_data.brawlers[1].name # player_data.brawlers[2].name
    /\ "gears" \notin DOMAIN player_data.brawlers[1]
    /\ "gears" \in DOMAIN player_data.brawlers[2]
    /\ brawler_details.value[1].Name = player_data.brawlers[1].name
    /\ brawler_details.value[1].Gears = <<"-">>
    /\ brawler_details.value[2].Gears # <<"-">>

\* C29: for every player record with at least one brawler, the first row of
\* format_brawler_details has the name and trophies that
\* get_highest_trophy_brawler returns, also when several brawlers tie.
C29_FirstRowIsHighest ==
    (HasDetailed /\ HasSomeBrawler) =>
        /\ brawler_details.status = "returned" /\ highest_brawler.status = "returned"
        /\ DOMAIN highest_brawler.value = {"name", "trophies"}
        /\ brawler_details.value[1].Name = highest_brawler.value.name
        /\ brawler_details.value[1].Trophies = highest_brawler.value.trophies

\* two brawlers of different names tie for the maximum: the first of them is
\* both the first row and the highest brawler
C29_Witness ==
    /\ HasDetailed /\ HasSomeBrawler
    /\ Len(player_data.brawlers) = 2
    /\ TrophiesOf[1] = TrophiesOf[2]
    /\ player_data.brawlers[1].name # player_data.brawlers[2].name
    /\ brawler_details.value[1].Name = player_data.brawlers[1].name
    /\ highest_brawler.value.name = player_data.brawlers[1].name
    /\ highest_brawler.value.trophies = brawler_details.value[1].Trophies

\* both logs were loaded and player 1's formatted list is not empty
BothLoadedWithRows ==
    /\ Truthy(battles1) /\ Truthy(battles2)
    /\ formatted1 # NotRun /\ formatted1 # Raised /\ formatted1.value # <<>>

\* C24: when both battle logs are loaded and player 1's formatted list is
\* not empty, _display_battle_logs ends without error, having shown player
\* 1's and then player 2's battle table
C24_ReachesBothTables ==
    BothLoadedWithRows /\ pc \in {"failed", "columns"} =>
        page_error = "none" /\ tables_shown = 2

\* has_extended_statistics is not a method of the processor, so a run that
\* gets as far as the columns with rows for player 1 ends there
ColumnsEndInAttributeError ==
    /\ ~Provides("has_extended_statistics")
    /\ pc = "columns" => tables_shown = 0
    /\ BothLoadedWithRows /\ formatted2 # NotRun /\ formatted2 # Raised /\ pc = "failed" =>
          page_error \in {"KeyError", "ValueError", "AttributeError"}

\* how many times the file holds the Google Analytics loader script
RECURSIVE SnippetCount(_)
SnippetCount(html) ==
    IF html = <<>> THEN 0
    ELSE (IF Head(html) = GA_JS[1] THEN 1 ELSE 0) + SnippetCount(Tail(html))

\* an index.html like Streamlit's: one <head>, nothing with the id
StandardFile(html) ==
    /\ Len(html) > 0
    /\ html[1] = Element("head", "", "")
    /\ \A i \in 2..Len(html) : html[i].tag \notin {"head", "HEAD"} /\ html[i].id = ""

\* C25: after any number of runs index.html holds the snippet exactly once
\* and the backup holds the original file
C25_SnippetOnceBackupOriginal ==
    runs >= 1 /\ StandardFile(original_html) =>
        /\ SnippetCount(index_html) = 1
        /\ bck_index = [exists |-> TRUE, text |-> original_html]

\* what inject_ga does instead: one more snippet at every run; the backup
\* does hold the original
OneSnippetPerRun ==
    /\ runs >= 1 /\ ~FindId(original_html, GA_ID) =>
          bck_index = [exists |-> TRUE, text |-> original_html]
    /\ StandardFile(original_html) => SnippetCount(index_html) = runs

\* the selection has run, one way or the other
SelectionOver == pc \in {"selected", "selection raised", "compared"}

\* a column in which an ID without '#' was typed
TypedWithoutHash(choice) ==
    choice.mode = "direct" /\ choice.text # <<>> /\ choice.text[1] # "#"

\* C27: _setup_player_selection returns a pair for every selection mode and
\* every set of loaded clubs, (None, None) as soon as a lookup fails, None
\* for an ID typed without '#'; the comparison is shown only for two
\* non-empty tags that get_player_info knows
C27_SelectionNeverRaises ==
    SelectionOver =>
        /\ selection # Raised
        /\ TypedWithoutHash(choice1) => selection.value[1] = PyNone
        /\ TypedWithoutHash(choice2) => selection.value[2] = PyNone
        /\ comparison_shown =>
              /\ TagTruthy(selection.value[1]) /\ PlayerInfo(selection.value[1], found)
              /\ TagTruthy(selection.value[2]) /\ PlayerInfo(selection.value[2], found)

\* the same without the first conjunct: what holds of every selection that
\* returns
SelectionGuardsWhenItReturns ==
    SelectionOver /\ selection # Raised =>
        /\ TypedWithoutHash(choice1) => selection.value[1] = PyNone
        /\ TypedWithoutHash(choice2) => selection.value[2] = PyNone
        /\ TagTruthy(selection.value[1]) /\ TagTruthy(selection.value[2]) =>
              PlayerInfo(selection.value[1], found) /\ PlayerInfo(selection.value[2], found)
        /\ comparison_shown =>
              TagTruthy(selection.value[1]) /\ TagTruthy(selection.value[2])

\* the text holds the character
Contains(text, c) == \E i \in DOMAIN text : text[i] = c

\* C30: _clean_tag gives a tag without '#' the fragment of the same tag
\* with '#'; the fragment starts with '%23', is upper-case and holds no '#'
\* and no space; the link built from a tag that starts with '#' is decoded
\* by the extended-statistics page to that tag
C30_CleanTagAndLinkRoundTrip ==
    /\ url_fragment # NotRun =>
          /\ ~StartsWithHash(given_tag) => url_fragment.value = CleanTag(<<"#">> \o given_tag)
          /\ Len(url_fragment.value) >= 3 /\ SubSeq(url_fragment.value, 1, 3) = S_Percent23
          /\ Upper(url_fragment.value) = url_fragment.value
          /\ ~Contains(url_fragment.value, "#") /\ ~Contains(url_fragment.value, " ")
    /\ pc = "opened" /\ StartsWithHash(given_tag) => page_tag = Returned(given_tag)

\* a tag with '#', a lower-case letter and a space has been cleaned, put
\* into the link and read back by the page
C30_Witness ==
    /\ given_tag = <<"#", "a", " ">>
    /\ url_fragment = Returned(<<"%","2","3","A">>)
    /\ link = Returned(<<"%","2","3","a"," ">>)
    /\ page_tag = Returned(given_tag)

====
